---------------------------- MODULE Spec2Model ----------------------------
(* Model of the Research engine of batchflow (research/research.py):       *)
(* DynamicQueue (task queue over a Domain) and ResearchMonitor (signal     *)
(* listener), with the worker processes and the distributor loop that use  *)
(* them.                                                                   *)
EXTENDS Integers, Sequences, FiniteSets, TLC

\* ------------------------------------------------------------------ bounds
MaxSize == 3        \* largest Domain size drawn from
MaxBranches == 2    \* largest n_branches
MaxN == 2           \* largest n_tasks passed to next_tasks
MaxUpdates == 1     \* how many times Domain.update may return a new Domain
NWorkers == 2       \* number of consumer processes
MaxSignals == 2     \* largest number of send calls
MaxDevices == 4     \* largest number of devices passed to run
MaxPuts == 3        \* largest number of put calls made by concurrent callers
MaxIteration == 3   \* largest checkpoint number and largest requested iteration

\* Caps of the free-call specification: join() calls, and sentinels put.
MaxFinished == MaxSize + 1
MaxSentinels == NWorkers

Workers == 1..NWorkers

VARIABLES
    domain,           \* self.domain: [gen, size, pos] (pos = configurations drawn so far)
    retired,          \* history: the Domains that were replaced, oldest first
    updates_left,     \* how many more times Domain.update returns a new Domain
    n_branches,       \* self.n_branches
    queue,            \* self.queue: the items not yet received, oldest first
    unfinished,       \* self.queue's count of items put and not yet task_done
    withdrawn_tasks,  \* self.withdrawn_tasks
    finished_tasks,   \* self.finished_tasks
    enqueued,         \* history: every task put by next_tasks, in put order
    worker,           \* per worker: [st, item]
    received,         \* history: the tasks handed out by get, in order
    sentinels_got,    \* history: per worker, how many sentinels it received
    sentinels_put,    \* history: how many sentinels stop_workers has put
    waves,            \* history: [joins, acked, wave]: join() calls returned, items
                      \* acknowledged when the last one returned, items of its wave
    pc                \* position of the producer (distributor) process

dqvars == <<domain, retired, updates_left, n_branches, queue, unfinished,
            withdrawn_tasks, finished_tasks, enqueued, worker, received, sentinels_got,
            sentinels_put, waves, pc>>

VARIABLES
    mqueue,           \* ResearchMonitor.queue: the signals not yet received, oldest first
    dump,             \* ResearchMonitor.dump, set by start
    file,             \* monitor.csv: [exists, rows]
    lpc,              \* listener process: "none", "get", "write", "exited", "crashed"
    signal,           \* the listener's local `signal`
    consumed,         \* history: the signals the listener received, in order
    sent_before,      \* history: the signals sent before stop() put the sentinel
    n_sent,           \* history: how many signals were sent
    mpc               \* the monitor's owner: "new", "started", "stopped"

mvars == <<mqueue, dump, file, lpc, signal, consumed, sent_before, n_sent, mpc>>

VARIABLES
    rpc,              \* Research.run: the statement it is at
    args,             \* Research.run: its arguments and the state it was called in
    folder,           \* the research folder on disk
    created,          \* the objects run has constructed
    warned,           \* whether a warning was issued
    error,            \* the exception that ended run, "none" if none did
    self_devices      \* Research.devices

runvars == <<rpc, args, folder, created, warned, error, self_devices>>

VARIABLES
    results,          \* ResearchResults.results: id -> unit name -> iteration -> value
    configs,          \* ResearchResults.configs: id -> Config
    rdump,            \* ResearchResults.dump_results
    disk,             \* the dumped results: id -> unit name -> checkpoint -> iteration -> value
    ret,              \* the last call on the store: its arguments and what it returned
    last_put,         \* id -> the arguments of the last put for it
    loaded,           \* whether load has been called
    inflight,         \* caller -> the put it is inside of, between its two writes
    n_puts,           \* the number of put calls begun
    res_from,         \* id -> the number of the put call that wrote results[id]
    cfg_from          \* id -> the number of the put call that wrote configs[id]

resvars == <<results, configs, rdump, disk, ret, last_put, loaded, inflight, n_puts,
             res_from, cfg_from>>

VARIABLES
    executor          \* the Executor: its arguments, its experiments and where its run is

xvars == <<executor>>

rvars == <<runvars, resvars, xvars>>

vars == <<dqvars, mvars, rvars>>

Min(a, b) == IF a < b THEN a ELSE b

\* The sentinel item (Python's None) put by stop_workers.
None == [id |-> -1, configs |-> << >>]

\* --------------------------------------------------------------- Domain
\* A Domain of known size: an iterator over its configurations, each drawn once.
\* Configuration k of generation g is written <<g, k>>.
Domain(g, s) == [gen |-> g, size |-> s, pos |-> 0]

\* next(self.domain) succeeds while configurations remain, else StopIteration.
DomainHasNext(d) == d.pos < d.size

\* ------------------------------------------------------------ next_tasks
\* The first loop of next_tasks: the list `configs` built from a Domain standing
\* at position p, for n_tasks = n. Each batch draws n_branches configurations;
\* StopIteration keeps a non-empty partial batch and breaks.
\* Mutant: a partial batch is dropped instead of kept.
RECURSIVE Batches_drop_partial(_, _, _)
Batches_drop_partial(d, B, n) ==
    IF n = 0 THEN << >>
    ELSE LET k == Min(B, d.size - d.pos)
             branch_tasks == [j \in 1..k |-> <<d.gen, d.pos + j>>]
         IN  IF k = B
             THEN <<branch_tasks>>
                    \o Batches_drop_partial([d EXCEPT !.pos = d.pos + B], B, n - 1)
             ELSE << >>

\* Mutant: the batch cut short by StopIteration is kept even when empty.
RECURSIVE Batches_keep_empty(_, _, _)
Batches_keep_empty(d, B, n) ==
    IF n = 0 THEN << >>
    ELSE LET k == Min(B, d.size - d.pos)
             branch_tasks == [j \in 1..k |-> <<d.gen, d.pos + j>>]
         IN  IF k = B
             THEN <<branch_tasks>>
                    \o Batches_keep_empty([d EXCEPT !.pos = d.pos + B], B, n - 1)
             ELSE <<branch_tasks>>

RECURSIVE Batches(_, _, _)
Batches(d, B, n) ==
    IF n = 0 THEN << >>
    ELSE LET k == Min(B, d.size - d.pos)
             branch_tasks == [j \in 1..k |-> <<d.gen, d.pos + j>>]
         IN  IF k = B
             THEN <<branch_tasks>> \o Batches([d EXCEPT !.pos = d.pos + B], B, n - 1)
             ELSE IF Len(branch_tasks) > 0 THEN <<branch_tasks>> ELSE << >>

\* Position of the Domain after the draws of that loop: every next() that
\* succeeded consumed one configuration, kept in `configs` or not.
RECURSIVE DrawPos(_, _, _)
DrawPos(d, B, n) ==
    IF n = 0 THEN d.pos
    ELSE IF d.size - d.pos >= B
         THEN DrawPos([d EXCEPT !.pos = d.pos + B], B, n - 1)
         ELSE d.size

\* Mutant: every batch of one call gets the counter itself as its id.
TaskId_const(withdrawn, i) == withdrawn

\* The id given to the i-th batch (i from 0) of one next_tasks call.
TaskId(withdrawn, i) == withdrawn + i

next_tasks(n) ==
    LET batches == Batches(domain, n_branches, n)
        tasks == [i \in 1..Len(batches) |->
                    [id |-> TaskId(withdrawn_tasks, i - 1), configs |-> batches[i]]]
        n_tasks == Len(batches)
    IN  /\ domain' = [domain EXCEPT !.pos = DrawPos(domain, n_branches, n)]
        /\ queue' = queue \o tasks
        /\ unfinished' = unfinished + n_tasks
        /\ enqueued' = enqueued \o tasks
        /\ withdrawn_tasks' = withdrawn_tasks + n_tasks
        /\ UNCHANGED <<retired, updates_left, n_branches, finished_tasks, worker,
                       received, sentinels_got, sentinels_put, waves>>

\* Mutant: next_tasks returns the number of batches it was asked for.
next_tasks_returns_requested(n) == n

\* n_tasks = len(configs); return n_tasks: the value next_tasks(n) returns.
next_tasks_returns(n) == Len(Batches(domain, n_branches, n))

\* ---------------------------------------------------------- update_domain
\* self.research, set by __init__ and never assigned again.
TheResearch == "research"

\* Mutant: update is given the number of withdrawn tasks.
update_args_withdrawn == [finished_tasks |-> withdrawn_tasks, research |-> TheResearch]

\* The arguments of self.domain.update(self.finished_tasks, self.research).
update_args == [finished_tasks |-> finished_tasks, research |-> TheResearch]

\* Domain.update returns a new Domain or nothing (None).
update_domain ==
    /\ \/ /\ updates_left > 0
          /\ \E s \in 0..MaxSize :
                /\ domain' = Domain(domain.gen + 1, s)
                /\ retired' = Append(retired, domain)
          /\ updates_left' = updates_left - 1
       \/ UNCHANGED <<domain, retired, updates_left>>
    /\ UNCHANGED <<n_branches, queue, unfinished, withdrawn_tasks, finished_tasks,
                   enqueued, worker, received, sentinels_got, sentinels_put, waves>>

\* ------------------------------------------------------------ stop_workers
\* Mutant: one sentinel too few.
stop_workers_one_short(n) ==
    /\ queue' = queue \o [i \in 1..(n - 1) |-> None]
    /\ unfinished' = unfinished + (n - 1)
    /\ sentinels_put' = sentinels_put + (n - 1)
    /\ UNCHANGED <<domain, retired, updates_left, n_branches, withdrawn_tasks,
                   finished_tasks, enqueued, worker, received, sentinels_got, waves>>

stop_workers(n) ==
    /\ queue' = queue \o [i \in 1..n |-> None]
    /\ unfinished' = unfinished + n
    /\ sentinels_put' = sentinels_put + n
    /\ UNCHANGED <<domain, retired, updates_left, n_branches, withdrawn_tasks,
                   finished_tasks, enqueued, worker, received, sentinels_got, waves>>

\* -------------------------------------------------------------------- join
\* Mutant: join counts the items of its wave instead of the wave.
join_counts_items ==
    /\ unfinished = 0
    /\ finished_tasks' = finished_tasks + (Len(enqueued) + sentinels_put - waves.acked)
    /\ waves' = [joins |-> waves.joins + 1,
                 acked |-> Len(enqueued) + sentinels_put,
                 wave  |-> Len(enqueued) + sentinels_put - waves.acked]
    /\ UNCHANGED <<domain, retired, updates_left, n_branches, queue, unfinished,
                   withdrawn_tasks, enqueued, worker, received, sentinels_got, sentinels_put>>

\* Mutant: join returns at once, whatever is left unacknowledged.
join_no_wait ==
    /\ finished_tasks' = finished_tasks + 1
    /\ waves' = [joins |-> waves.joins + 1,
                 acked |-> Len(enqueued) + sentinels_put,
                 wave  |-> Len(enqueued) + sentinels_put - waves.acked]
    /\ UNCHANGED <<domain, retired, updates_left, n_branches, queue, unfinished,
                   withdrawn_tasks, enqueued, worker, received, sentinels_got, sentinels_put>>

\* self.queue.join() returns once no put item is left unacknowledged.
join ==
    /\ unfinished = 0
    /\ finished_tasks' = finished_tasks + 1
    /\ waves' = [joins |-> waves.joins + 1,
                 acked |-> Len(enqueued) + sentinels_put,
                 wave  |-> Len(enqueued) + sentinels_put - waves.acked]
    /\ UNCHANGED <<domain, retired, updates_left, n_branches, queue, unfinished,
                   withdrawn_tasks, enqueued, worker, received, sentinels_got, sentinels_put>>

in_progress == withdrawn_tasks # finished_tasks

\* ------------------------------------------------- consumers (get, task_done)
\* Mutant: get returns the oldest item and leaves it on the queue.
get_peek(w) ==
    /\ worker[w].st = "idle"
    /\ queue # << >>
    /\ worker' = [worker EXCEPT ![w] = [st |-> "busy", item |-> Head(queue)]]
    /\ received' = IF Head(queue) = None THEN received ELSE Append(received, Head(queue))
    /\ sentinels_got' = [sentinels_got EXCEPT ![w] = @ + (IF Head(queue) = None THEN 1 ELSE 0)]
    /\ UNCHANGED <<domain, retired, updates_left, n_branches, queue, unfinished,
                   withdrawn_tasks, finished_tasks, enqueued, sentinels_put, waves>>

\* queue.get(): blocks while the queue is empty, then removes the oldest item.
get(w) ==
    /\ worker[w].st = "idle"
    /\ queue # << >>
    /\ worker' = [worker EXCEPT ![w] = [st |-> "busy", item |-> Head(queue)]]
    /\ received' = IF Head(queue) = None THEN received ELSE Append(received, Head(queue))
    /\ sentinels_got' = [sentinels_got EXCEPT ![w] = @ + (IF Head(queue) = None THEN 1 ELSE 0)]
    /\ queue' = Tail(queue)
    /\ UNCHANGED <<domain, retired, updates_left, n_branches, unfinished,
                   withdrawn_tasks, finished_tasks, enqueued, sentinels_put, waves>>

\* Mutant: task_done does not acknowledge the item.
task_done_no_ack(w) ==
    /\ worker[w].st = "busy"
    /\ worker' = [worker EXCEPT ![w] =
                    [st |-> IF worker[w].item = None THEN "stopped" ELSE "idle",
                     item |-> None]]
    /\ UNCHANGED <<domain, retired, updates_left, n_branches, queue, unfinished,
                   withdrawn_tasks, finished_tasks, enqueued, received, sentinels_got,
                   sentinels_put, waves>>

\* queue.task_done() for the item the worker holds; a worker that held the
\* sentinel leaves its loop.
task_done(w) ==
    /\ worker[w].st = "busy"
    /\ unfinished' = unfinished - 1
    /\ worker' = [worker EXCEPT ![w] =
                    [st |-> IF worker[w].item = None THEN "stopped" ELSE "idle",
                     item |-> None]]
    /\ UNCHANGED <<domain, retired, updates_left, n_branches, queue,
                   withdrawn_tasks, finished_tasks, enqueued, received, sentinels_got,
                   sentinels_put, waves>>

\* ---------------------------------------------------------- ResearchMonitor
COLUMNS == <<"time", "task_idx", "id", "it", "name", "status", "exception",
             "worker", "pid", "worker_pid">>

\* The sentinel (Python's None) put on the signal queue by stop.
NoSignal == [status |-> "None"]

\* {**f, **g}: the keys of both, g's value where both have one.
Merge(f, g) == [k \in DOMAIN f \cup DOMAIN g |-> IF k \in DOMAIN g THEN g[k] ELSE f[k]]

\* The experiment and the worker whose events are reported.
TheExperiment == [id |-> "e1", pid |-> "11", iteration |-> "0", exception |-> "ValueError"]
TheWorker == [index |-> "0", pid |-> "12"]

\* The signal built by send(experiment, worker, **kwargs); has_worker tells
\* whether a worker was passed.
SignalOf(experiment, has_worker, kwargs) ==
    LET s0 == Merge([time |-> "t"], kwargs)
        s1 == Merge(s0, [id |-> experiment.id, pid |-> experiment.pid])
    IN  IF has_worker
        THEN Merge(s1, [worker |-> TheWorker.index, worker_pid |-> TheWorker.pid])
        ELSE s1

start_execution(name, e) ==
    SignalOf(e, FALSE, [name |-> name, it |-> e.iteration, status |-> "start"])
finish_execution(name, e) ==
    SignalOf(e, TRUE, [name |-> name, it |-> e.iteration, status |-> "success"])
fail_execution(name, e) ==
    SignalOf(e, TRUE, [name |-> name, it |-> e.iteration, status |-> "error",
                       exception |-> e.exception])
stop_iteration(name, e) ==
    SignalOf(e, TRUE, [name |-> name, it |-> e.iteration, status |-> "stop_iteration"])

Signals == {start_execution("unit", TheExperiment), finish_execution("unit", TheExperiment),
            fail_execution("unit", TheExperiment), stop_iteration("unit", TheExperiment)}

\* The row written if the missing fields were written as str(None).
Row_none(s) == [c \in 1..Len(COLUMNS) |-> IF COLUMNS[c] \in DOMAIN s THEN s[COLUMNS[c]] ELSE "None"]

\* The row written for a signal: str(signal.get(column, '')) for each column.
Row(s) == [c \in 1..Len(COLUMNS) |-> IF COLUMNS[c] \in DOMAIN s THEN s[COLUMNS[c]] ELSE ""]

\* ResearchMonitor.__init__; the research folder is new, so there is no log yet.
MInit ==
    /\ mqueue = << >>
    /\ dump = FALSE
    /\ file = [exists |-> FALSE, rows |-> << >>]
    /\ lpc = "none"
    /\ signal = NoSignal
    /\ consumed = << >>
    /\ sent_before = << >>
    /\ n_sent = 0
    /\ mpc = "new"

\* send: self.queue.put(signal).
send(s) ==
    /\ mqueue' = Append(mqueue, s)
    /\ n_sent' = n_sent + 1
    /\ sent_before' = IF mpc = "stopped" THEN sent_before ELSE Append(sent_before, s)
    /\ UNCHANGED <<dump, file, lpc, signal, consumed, mpc>>

\* start(dump) if the log were opened for writing whenever dump is set.
start_truncating(d) ==
    /\ dump' = d
    /\ file' = IF d THEN [exists |-> TRUE, rows |-> <<COLUMNS>>] ELSE file
    /\ lpc' = "get"
    /\ mpc' = "started"
    /\ UNCHANGED <<mqueue, signal, consumed, sent_before, n_sent>>

\* start(dump): writes the header if the log does not exist, spawns the listener.
start(d) ==
    /\ dump' = d
    /\ file' = IF d /\ ~file.exists THEN [exists |-> TRUE, rows |-> <<COLUMNS>>] ELSE file
    /\ lpc' = "get"
    /\ mpc' = "started"
    /\ UNCHANGED <<mqueue, signal, consumed, sent_before, n_sent>>

\* stop: self.queue.put(None).
stop ==
    /\ mpc = "started"
    /\ mqueue' = Append(mqueue, NoSignal)
    /\ mpc' = "stopped"
    /\ UNCHANGED <<dump, file, lpc, signal, consumed, sent_before, n_sent>>

\* listener: signal = self.queue.get(); the loop ends on None.
listener_get ==
    /\ lpc = "get"
    /\ mqueue # << >>
    /\ signal' = Head(mqueue)
    /\ mqueue' = Tail(mqueue)
    /\ consumed' = IF Head(mqueue) = NoSignal THEN consumed ELSE Append(consumed, Head(mqueue))
    /\ lpc' = IF Head(mqueue) = NoSignal THEN "exited" ELSE "write"
    /\ UNCHANGED <<dump, file, sent_before, n_sent, mpc>>

\* listener: the loop body. With dump, the row is appended to the log (opened in
\* append mode, which creates it); open or write may raise, and nothing catches it.
listener_write ==
    /\ lpc = "write"
    /\ \/ /\ file' = IF dump
                     THEN [exists |-> TRUE, rows |-> Append(file.rows, Row(signal))]
                     ELSE file
          /\ lpc' = "get"
       \/ /\ dump
          /\ lpc' = "crashed"
          /\ UNCHANGED file
    /\ UNCHANGED <<mqueue, dump, signal, consumed, sent_before, n_sent, mpc>>

\* ------------------------------------------------------------------ Research
\* devices[:n]
Take(s, n) == SubSeq(s, 1, Min(n, Len(s)))

\* Each element of s repeated q times in place: chain.from_iterable(zip(*repeat(s, q)))
\* and chain.from_iterable(repeat(x, q) for x in s) both build this list.
RepeatEach(s, q) == [i \in 1..(Len(s) * q) |-> s[((i - 1) \div q) + 1]]

\* Python's a % b for b > 0: the result is in 0..b-1 also for negative a.
PyMod(a, b) == ((a % b) + b) % b

\* str(item) of a device given as an integer.
DeviceStr(item) == ToString(item)

\* The device of a branch when no devices were passed (Python's None).
NoDevice == "None"

\* get_devices for a flat list of device identifiers, n_workers and n_branches.
\* This variant leaves the branch out of the index, so the branches of a
\* worker all get the share of its first branch.
get_devices_same_share(devices, nworkers, nbranches) ==
    LET total_n_branches == nworkers * nbranches
        d1 == IF total_n_branches > Len(devices)
              THEN RepeatEach(devices, total_n_branches \div Len(devices))
                       \o Take(devices, total_n_branches % Len(devices))
              ELSE devices \o Take(devices, PyMod(-Len(devices), total_n_branches))
        devices_per_branch == Len(d1) \div total_n_branches
    IN  [i \in 1..nworkers |-> [j \in 1..nbranches |->
            [k \in 1..devices_per_branch |->
                DeviceStr(d1[nbranches * devices_per_branch * (i - 1) + k])]]]

\* get_devices for a flat list of device identifiers (integers): the list is
\* stretched or padded to a multiple of n_workers * n_branches, then cut into
\* one share per worker and branch, and each identifier is turned into a string.
get_devices(devices, nworkers, nbranches) ==
    LET total_n_branches == nworkers * nbranches
        d1 == IF total_n_branches > Len(devices)
              THEN RepeatEach(devices, total_n_branches \div Len(devices))
                       \o Take(devices, total_n_branches % Len(devices))
              ELSE devices \o Take(devices, PyMod(-Len(devices), total_n_branches))
        d2 == IF total_n_branches % Len(d1) = 0
              THEN RepeatEach(d1, total_n_branches \div Len(d1))
              ELSE d1
        devices_per_branch == Len(d2) \div total_n_branches
    IN  IF Len(d2) % total_n_branches = 0
        THEN [i \in 1..nworkers |-> [j \in 1..nbranches |->
                 [k \in 1..devices_per_branch |->
                     DeviceStr(d2[nbranches * devices_per_branch * (i - 1)
                                  + devices_per_branch * (j - 1) + k])]]]
        ELSE d2

\* get_devices for devices=None: every branch of every worker gets [None].
get_devices_none(nworkers, nbranches) ==
    [i \in 1..nworkers |-> [j \in 1..nbranches |-> <<NoDevice>>]]

\* The research folder: whether it exists, its subfolders, the files of env/
\* with the run that wrote each, and whether research.log is there.
NoFolder == [exists |-> FALSE, subfolders |-> {}, env |-> << >>, log |-> FALSE]
Subfolders == {"configs", "description", "env", "experiments"}
EnvFiles == {"commit", "diff", "status"}
OldFolder == [exists |-> TRUE, subfolders |-> Subfolders,
              env |-> [f \in EnvFiles |-> "old"], log |-> TRUE]

\* create_research_folder, but an existing folder is accepted as it is.
create_research_folder_exist_ok(f) ==
    IF ~f.exists
    THEN [folder |-> [f EXCEPT !.exists = TRUE, !.subfolders = Subfolders], error |-> "none"]
    ELSE [folder |-> f, error |-> "none"]

\* create_research_folder: makes the folder and its subfolders, or raises
\* ValueError if the folder exists.
create_research_folder(f) ==
    IF ~f.exists
    THEN [folder |-> [f EXCEPT !.exists = TRUE, !.subfolders = Subfolders], error |-> "none"]
    ELSE [folder |-> f, error |-> "ValueError"]

\* attach_env_meta with dump_results: env/ is made if missing and each file is
\* opened with 'w', which replaces what was there.
attach_env_meta(f) ==
    [f EXCEPT !.subfolders = @ \cup {"env"}, !.env = [n \in EnvFiles |-> "new"]]

\* The names bound in the module by its import statements; warnings is not one.
Imports == {"os", "datetime", "csv", "copy", "deepcopy", "itertools", "subprocess", "re",
            "functools", "mp", "dill", "glob", "OrderedDict", "np", "pd", "Config",
            "Domain", "Distributor", "Experiment", "Executor", "create_logger", "to_list"}

\* The condition of the warning: the domain has no size and is never updated
\* before its iterator ends.
InfiniteDomain(a) == ~a.size_known /\ a.update \in {"none", "last"}

\* No call of run is under way.
RIdle ==
    /\ rpc = "idle"
    /\ args = [dump_results |-> FALSE]
    /\ folder = NoFolder
    /\ created = {}
    /\ warned = FALSE
    /\ error = "none"
    /\ self_devices = << >>

\* run up to self.devices = self.get_devices(devices).
RunCall ==
    /\ rpc = "call"
    /\ self_devices' = IF args.devices = << >>
                       THEN get_devices_none(args.workers, args.branches)
                       ELSE get_devices(args.devices, args.workers, args.branches)
    /\ rpc' = "folder"
    /\ UNCHANGED <<args, folder, created, warned, error>>

\* if self.dump_results: self.create_research_folder()
RunFolder ==
    /\ rpc = "folder"
    /\ IF args.dump_results
       THEN LET r == create_research_folder(folder)
            IN  /\ folder' = r.folder
                /\ error' = r.error
                /\ rpc' = IF r.error = "none" THEN "env" ELSE "raised"
       ELSE /\ rpc' = "env"
            /\ UNCHANGED <<folder, error>>
    /\ UNCHANGED <<args, created, warned, self_devices>>

\* self.attach_env_meta(), the worker and branch lists, set_iter_params.
RunEnv ==
    /\ rpc = "env"
    /\ folder' = IF args.dump_results THEN attach_env_meta(folder) ELSE folder
    /\ rpc' = "warn"
    /\ UNCHANGED <<args, created, warned, error, self_devices>>

\* The check for an infinite domain; warnings.warn looks the name warnings up
\* in the module, and an unbound name raises NameError.
RunWarn ==
    /\ rpc = "warn"
    /\ IF InfiniteDomain(args)
       THEN IF "warnings" \in Imports
            THEN /\ warned' = TRUE
                 /\ rpc' = "logger"
                 /\ UNCHANGED error
            ELSE /\ error' = "NameError"
                 /\ rpc' = "raised"
                 /\ UNCHANGED warned
       ELSE /\ rpc' = "logger"
            /\ UNCHANGED <<warned, error>>
    /\ UNCHANGED <<args, folder, created, self_devices>>

\* self.create_logger(); the log file is in the folder when results are dumped.
RunLogger ==
    /\ rpc = "logger"
    /\ created' = created \cup {"logger"}
    /\ folder' = IF args.dump_results THEN [folder EXCEPT !.log = TRUE] ELSE folder
    /\ rpc' = "queue"
    /\ UNCHANGED <<args, warned, error, self_devices>>

\* DynamicQueue, Distributor, ResearchResults and ResearchMonitor are constructed.
RunQueue ==
    /\ rpc = "queue"
    /\ created' = created \cup {"queue", "distributor", "results", "monitor"}
    /\ rpc' = "monitor"
    /\ UNCHANGED <<args, folder, warned, error, self_devices>>

\* run going on to distributor.run() without starting the monitor.
RunMonitorStart_skipped ==
    /\ rpc = "monitor"
    /\ rpc' = "dist"
    /\ UNCHANGED <<args, folder, created, warned, error, self_devices, mvars>>

\* self.monitor.start(self.dump_results)
RunMonitorStart ==
    /\ rpc = "monitor"
    /\ start(args.dump_results)
    /\ rpc' = "dist"
    /\ UNCHANGED <<args, folder, created, warned, error, self_devices>>

\* distributor.run(): while it runs the workers send signals to the monitor.
RunDistSend ==
    /\ rpc = "dist"
    /\ n_sent < MaxSignals
    /\ \E s \in Signals : send(s)
    /\ UNCHANGED runvars

\* distributor.run() returns.
RunDistReturn ==
    /\ rpc = "dist"
    /\ rpc' = "stop"
    /\ UNCHANGED <<args, folder, created, warned, error, self_devices, mvars>>

\* distributor.run() raises: the exception leaves run there.
RunDistRaise ==
    /\ rpc = "dist"
    /\ rpc' = "raised"
    /\ error' = "Exception"
    /\ UNCHANGED <<args, folder, created, warned, self_devices, mvars>>

\* self.monitor.stop(); return self
RunMonitorStop ==
    /\ rpc = "stop"
    /\ stop
    /\ rpc' = "returned"
    /\ UNCHANGED <<args, folder, created, warned, error, self_devices>>


\* ------------------------------------------------------------ ResearchResults
\* An optional argument: None, or a value.
Absent == << >>
Given(x) == <<x>>

\* A dict with no keys.
EmptyDict == << >>

\* The dict f without the keys outside S.
Restrict(f, S) == [k \in (DOMAIN f) \cap S |-> f[k]]

\* The lists of a list, joined.
RECURSIVE Concat(_)
Concat(ss) == IF ss = << >> THEN << >> ELSE Head(ss) \o Concat(Tail(ss))

\* The integers of S in ascending order.
RECURSIVE Ascending(_)
Ascending(S) ==
    IF S = {} THEN << >>
    ELSE LET m == CHOOSE x \in S : \A y \in S : x <= y
         IN  <<m>> \o Ascending(S \ {m})

\* The alias of a parameter value.
AliasOf(v) == ToString(v)
AliasDict(c) == [k \in DOMAIN c |-> AliasOf(c[k])]

\* A Config: config() is its full form, alias() its alias form.
Cfg(c) == [config |-> c, alias |-> AliasDict(c)]

\* Config.pop_config(key)
pop_config(c, key) ==
    [config |-> Restrict(c.config, (DOMAIN c.config) \ {key}),
     alias |-> Restrict(c.alias, (DOMAIN c.alias) \ {key})]

\* The experiment ids, unit names, results and Configs the store is used with;
\* ids and names are listed in the order the dicts are iterated in.
ExperimentIds == <<"e1", "e2">>
UnitNames == <<"acc", "loss">>
ResultValues ==
    {[loss |-> (0 :> 10 @@ 1 :> 11)],
     [loss |-> (0 :> 20 @@ 1 :> 21), acc |-> (1 :> 5)]}
Configs ==
    {Cfg([x |-> 1, y |-> 1, repetition |-> 0]),
     Cfg([x |-> 2, y |-> 1, repetition |-> 0])}

\* The dicts passed as config, alias (in alias form) or keyword filters.
FilterDicts == {[x |-> 1], [x |-> 2], [x |-> 2, y |-> 1]}

\* The Configs produced by the Domain passed as domain.
FilterDomains == {<<Cfg([x |-> 1]), Cfg([y |-> 1])>>}

\* The keys of a dict in iteration order.
IdsOf(d) == SelectSeq(ExperimentIds, LAMBDA i : i \in DOMAIN d)
NamesOf(r) == SelectSeq(UnitNames, LAMBDA n : n \in DOMAIN r)

\* d[key] = value
SetItem_first_wins(d, key, value) ==
    [k \in (DOMAIN d) \cup {key} |-> IF k \in DOMAIN d THEN d[k] ELSE value]
SetItem_alone(d, key, value) == [k \in {key} |-> value]
SetItem(d, key, value) ==
    [k \in (DOMAIN d) \cup {key} |-> IF k = key THEN value ELSE d[k]]

\* The check at the head of filter_ids_by_configs: more than one of domain,
\* config and alias is given. The first variant only objects to all three.
TooMany_all_three(config, alias, dom) ==
    config # Absent /\ alias # Absent /\ dom # Absent
TooMany(config, alias, dom) ==
    Cardinality({i \in 1..3 : <<dom, config, alias>>[i] # Absent}) > 1

\* The containment test looking at the keys only.
Contains_keys_only(c, flt) == \A k \in DOMAIN flt : k \in DOMAIN c

\* all(item in _config.items() for item in config.items())
Contains(c, flt) == \A k \in DOMAIN flt : k \in DOMAIN c /\ c[k] = flt[k]

\* The loop over self.configs.items() with a config, or with an alias.
MatchConfig(cfgs, config) ==
    SelectSeq(IdsOf(cfgs), LAMBDA i : Contains(cfgs[i].config, config))
MatchAlias(cfgs, alias) ==
    SelectSeq(IdsOf(cfgs), LAMBDA i : Contains(cfgs[i].alias, alias))

\* filter_ids_by_configs(config, alias, dom, **kwargs) on the Configs cfgs:
\* whether it raised, and the list it returned.
filter_ids_by_configs(cfgs, config, alias, dom, kwargs) ==
    IF TooMany(config, alias, dom)
    THEN [raised |-> TRUE, ids |-> << >>]
    ELSE IF dom # Absent
    THEN [raised |-> FALSE,
          ids |-> Concat([i \in 1..Len(dom[1]) |->
                             MatchConfig(cfgs, dom[1][i].config)])]
    ELSE LET has_kwargs == DOMAIN kwargs # {}
             config1 == IF ~has_kwargs THEN config
                        ELSE IF config # Absent THEN Given(Merge(config[1], kwargs))
                        ELSE IF alias # Absent THEN config
                        ELSE Given(kwargs)
             alias1 == IF has_kwargs /\ config = Absent /\ alias # Absent
                       THEN Given(Merge(alias[1], kwargs))
                       ELSE alias
         IN  [raised |-> FALSE,
              ids |-> IF config1 = Absent /\ alias1 = Absent THEN IdsOf(cfgs)
                      ELSE IF config1 # Absent THEN MatchConfig(cfgs, config1[1])
                      ELSE MatchAlias(cfgs, alias1[1])]

\* configs_to_df: one row per id of self.configs, the id with the columns of
\* its Config; pd.concat raises on an empty list.
configs_to_df(cfgs, use_alias, concat_config, remove_auxilary) ==
    LET row(i) ==
            LET c0 == cfgs[i]
                c1 == IF remove_auxilary
                      THEN pop_config(pop_config(c0, "repetition"), "device")
                      ELSE c0
                c2 == IF use_alias
                      THEN IF concat_config THEN [config |-> c1.alias] ELSE c1.alias
                      ELSE c1.config
            IN  Merge([id |-> i], c2)
        ids == IdsOf(cfgs)
    IN  [raised |-> ids = << >>, rows |-> [n \in 1..Len(ids) |-> row(ids[n])]]

\* pd.merge(left, right, how='inner', on='id'): each row of left with each
\* row of right that has its id.
MergeOnId(left, right) ==
    Concat([n \in 1..Len(left) |->
               LET same == SelectSeq(right, LAMBDA r : r.id = left[n].id)
               IN  [m \in 1..Len(same) |-> Merge(left[n], same[m])]])

\* The frames to_df builds for one experiment: a row per name and iteration,
\* or with pivot the frames of the names merged on id and iteration.
ExperimentRows(res, i, pivot) ==
    LET names == NamesOf(res[i])
        frame(n) == LET its == Ascending(DOMAIN res[i][n])
                    IN  [t \in 1..Len(its) |->
                            [id |-> i, iteration |-> its[t], name |-> n,
                             value |-> res[i][n][its[t]]]]
        common == Ascending({t \in DOMAIN res[i][names[1]] :
                                \A k \in 1..Len(names) : t \in DOMAIN res[i][names[k]]})
    IN  IF names = << >> THEN << >>
        ELSE IF pivot
        THEN [t \in 1..Len(common) |->
                 Merge([id |-> i], Merge([iteration |-> common[t]],
                       [n \in DOMAIN res[i] |-> res[i][n][common[t]]]))]
        ELSE Concat([k \in 1..Len(names) |-> frame(names[k])])

\* to_df(pivot, include_config) with the default keywords of configs_to_df.
to_df(res, cfgs, pivot, include_config) ==
    LET ids == IdsOf(res)
        rows == Concat([n \in 1..Len(ids) |-> ExperimentRows(res, ids[n], pivot)])
        cdf == configs_to_df(cfgs, TRUE, FALSE, TRUE)
    IN  IF include_config /\ Len(rows) > 0
        THEN IF cdf.raised THEN [raised |-> TRUE, rows |-> << >>]
             ELSE [raised |-> FALSE, rows |-> MergeOnId(rows, cdf.rows)]
        ELSE [raised |-> FALSE, rows |-> rows]

\* load_iteration_files(path, iteration) over the checkpoint files of one unit
\* (checkpoint number -> iteration -> value). With iteration None every file is
\* read; with a list, for each requested iteration the file with the smallest
\* number >= it is picked, and indexing the empty match raises IndexError
\* before any file is read. The files are read in checkpoint order, a later
\* one replacing an iteration of an earlier one, and with a list only the
\* requested iterations are kept.
load_iteration_files(files, iteration) ==
    LET requested == IF iteration = Absent THEN {}
                     ELSE {iteration[1][k] : k \in 1..Len(iteration[1])}
        later(it) == {c \in DOMAIN files : c >= it}
        fails == \E it \in requested : later(it) = {}
        files_to_load ==
            IF iteration = Absent THEN DOMAIN files
            ELSE {CHOOSE c \in later(it) : \A c2 \in later(it) : c <= c2 : it \in requested}
        cps == Ascending(files_to_load)
        kept(c) == IF iteration = Absent THEN files[c] ELSE Restrict(files[c], requested)
        upto[n \in 0..Len(cps)] == IF n = 0 THEN EmptyDict
                                   ELSE Merge(upto[n - 1], kept(cps[n]))
    IN  IF fails
        THEN [raised |-> TRUE, read |-> {}, values |-> EmptyDict]
        ELSE [raised |-> FALSE, read |-> files_to_load, values |-> upto[Len(cps)]]

\* x in l, for a list l.
InList(x, l) == \E k \in 1..Len(l) : l[k] = x

\* np.intersect1d(a, b), as a list in the order of a.
Intersect(a, b) == SelectSeq(a, LAMBDA x : InList(x, b))

\* The results load builds from the dumped files of the ids in experiment_id
\* and the names in name (Absent: every name).
LoadedResults(d, experiment_id, name) ==
    LET wanted(n) == name = Absent \/ InList(n, name[1])
    IN  [i \in {i \in DOMAIN d : InList(i, experiment_id) /\ \E n \in DOMAIN d[i] : wanted(n)} |->
            [n \in {n \in DOMAIN d[i] : wanted(n)} |->
                load_iteration_files(d[i][n], Absent).values]]

\* The processes that call put, and a caller that is not inside put.
Callers == {"p1", "p2"}
NoPut == [id |-> "none"]

\* ResearchResults.__init__, with nothing dumped.
ResIdle ==
    /\ results = EmptyDict
    /\ configs = EmptyDict
    /\ rdump = FALSE
    /\ disk = EmptyDict
    /\ ret = [op |-> "none"]
    /\ last_put = EmptyDict
    /\ loaded = FALSE
    /\ inflight = [p \in Callers |-> NoPut]
    /\ n_puts = 0
    /\ res_from = EmptyDict
    /\ cfg_from = EmptyDict

\* put(id, results, config), both writes.
put(id, r, c) ==
    /\ results' = SetItem(results, id, r)
    /\ configs' = SetItem(configs, id, c)

\* put called by one process with no other call under way.
ResPut ==
    \E id \in {ExperimentIds[k] : k \in 1..Len(ExperimentIds)}, r \in ResultValues, c \in Configs :
        LET a == [results |-> r, config |-> c]
            again == id \in DOMAIN last_put /\ last_put[id].args = a
        IN  /\ put(id, r, c)
            /\ last_put' = [k \in (DOMAIN last_put) \cup {id} |->
                               IF k = id
                               THEN [args |-> a] ELSE last_put[k]]
            /\ ret' = [op |-> "put", id |-> id, repeated |-> again,
                       replaced |-> id \in DOMAIN last_put /\ ~again,
                       unchanged |-> results' = results /\ configs' = configs]
            /\ UNCHANGED <<rdump, disk, loaded, inflight, n_puts, res_from, cfg_from>>

\* to_df(pivot, include_config)
ResToDf ==
    \E pivot \in BOOLEAN, include_config \in BOOLEAN :
        LET df == to_df(results, configs, pivot, include_config)
        IN  /\ ret' = [op |-> "to_df", pivot |-> pivot, include_config |-> include_config,
                       raised |-> df.raised, rows |-> df.rows]
            /\ UNCHANGED <<results, configs, rdump, disk, last_put, loaded, inflight,
                           n_puts, res_from, cfg_from>>

\* configs_to_df(use_alias, concat_config, remove_auxilary)
ResConfigsToDf ==
    \E use_alias \in BOOLEAN, concat_config \in BOOLEAN, remove_auxilary \in BOOLEAN :
        LET df == configs_to_df(configs, use_alias, concat_config, remove_auxilary)
        IN  /\ ret' = [op |-> "configs_to_df", raised |-> df.raised, rows |-> df.rows]
            /\ UNCHANGED <<results, configs, rdump, disk, last_put, loaded, inflight,
                           n_puts, res_from, cfg_from>>

\* The arguments filter_ids_by_configs is called with; keyword filters are in
\* alias form when they come with an alias.
FilterConfigs == {Absent} \cup {Given(d) : d \in FilterDicts}
FilterAliases == {Absent} \cup {Given(AliasDict(d)) : d \in FilterDicts \ {[x |-> 2]}}
FilterDomainArgs == {Absent} \cup {Given(d) : d \in FilterDomains}
FilterKwargs(alias) ==
    {EmptyDict} \cup {IF alias = Absent THEN d ELSE AliasDict(d) :
                          d \in FilterDicts \ {[x |-> 2, y |-> 1]}}

\* filter_ids_by_configs(config, alias, domain, **kwargs)
ResFilter ==
    \E config \in FilterConfigs, alias \in FilterAliases, dom \in FilterDomainArgs :
        \E kwargs \in FilterKwargs(alias) :
            LET f == filter_ids_by_configs(configs, config, alias, dom, kwargs)
            IN  /\ ret' = [op |-> "filter", config |-> config, alias |-> alias,
                           domain |-> dom, kwargs |-> kwargs,
                           raised |-> f.raised, ids |-> f.ids]
                /\ UNCHANGED <<results, configs, rdump, disk, last_put, loaded, inflight,
                               n_puts, res_from, cfg_from>>

\* load(experiment_id, name, iteration=None, config, alias, domain, **kwargs):
\* the ids are filtered; with dump_results the results are replaced by what
\* the dumped files of those ids and names hold.
load(experiment_id, name, config, alias, dom, kwargs) ==
    LET f == filter_ids_by_configs(configs, config, alias, dom, kwargs)
        ids == IF experiment_id # Absent THEN Intersect(experiment_id[1], f.ids) ELSE f.ids
    IN  /\ results' = IF ~f.raised /\ rdump
                      THEN LoadedResults(disk, ids, name)
                      ELSE results
        /\ ret' = [op |-> "load", raised |-> f.raised]
        /\ loaded' = TRUE
        /\ UNCHANGED <<configs, rdump, disk, last_put, inflight, n_puts, res_from, cfg_from>>

ResLoad ==
    \E experiment_id \in {Absent, Given(<<"e1">>), Given(<<"e2", "e1">>)},
       name \in {Absent, Given(<<"loss">>)},
       config \in {Absent, Given([x |-> 1])} :
        load(experiment_id, name, config, Absent, Absent, EmptyDict)

\* Mutant: put writes the config in its first statement.
put_results_config_first(p, id, r, c) ==
    /\ inflight[p] = NoPut
    /\ n_puts < MaxPuts
    /\ configs' = SetItem(configs, id, c)
    /\ n_puts' = n_puts + 1
    /\ cfg_from' = [k \in (DOMAIN cfg_from) \cup {id} |->
                       IF k = id THEN n_puts + 1 ELSE cfg_from[k]]
    /\ inflight' = [inflight EXCEPT ![p] = [id |-> id, config |-> c, call |-> n_puts + 1]]
    /\ UNCHANGED <<results, rdump, disk, ret, last_put, loaded, res_from>>

\* put, its first statement: self.results[id] = results. The call is numbered.
put_results(p, id, r, c) ==
    /\ inflight[p] = NoPut
    /\ n_puts < MaxPuts
    /\ results' = SetItem(results, id, r)
    /\ n_puts' = n_puts + 1
    /\ res_from' = [k \in (DOMAIN res_from) \cup {id} |->
                       IF k = id THEN n_puts + 1 ELSE res_from[k]]
    /\ inflight' = [inflight EXCEPT ![p] = [id |-> id, config |-> c, call |-> n_puts + 1]]
    /\ UNCHANGED <<configs, rdump, disk, ret, last_put, loaded, cfg_from>>

\* put returning without its second statement.
put_configs_skip(p) ==
    /\ inflight[p] # NoPut
    /\ inflight' = [inflight EXCEPT ![p] = NoPut]
    /\ UNCHANGED <<results, configs, rdump, disk, ret, last_put, loaded, n_puts,
                   res_from, cfg_from>>

\* put, its second statement: self.configs[id] = config; put returns.
put_configs(p) ==
    /\ inflight[p] # NoPut
    /\ configs' = SetItem(configs, inflight[p].id, inflight[p].config)
    /\ cfg_from' = [k \in (DOMAIN cfg_from) \cup {inflight[p].id} |->
                       IF k = inflight[p].id THEN inflight[p].call ELSE cfg_from[k]]
    /\ inflight' = [inflight EXCEPT ![p] = NoPut]
    /\ UNCHANGED <<results, rdump, disk, ret, last_put, loaded, n_puts, res_from>>

\* ------------------------------------------------------------------ Executor
\* No Executor has been constructed.
XIdle == executor = [pc |-> "none"]

\* Mutant: on a key several layers have, the executor's value wins.
ExperimentConfig_executor_first(config, branch_config, executor_config) ==
    Merge(Merge(config, branch_config), executor_config)

\* The Configuration an experiment runs with: executor_config, overridden by
\* its branch's config, overridden by its own config.
ExperimentConfig(config, branch_config, executor_config) ==
    Merge(Merge(executor_config, branch_config), config)

\* Executor(experiment, configs=..., branches_configs=..., executor_config=...,
\* n_iters=...): one experiment per config, each with its merged Configuration
\* and its own generator, none of them stopped.
ExecutorNew ==
    /\ executor.pc = "new"
    /\ executor' =
          [pc |-> "start", n_iters |-> executor.n_iters, iteration |-> 0, index |-> 1,
           configs |-> executor.configs, branches_configs |-> executor.branches_configs,
           executor_config |-> executor.executor_config,
           experiments |->
               [i \in DOMAIN executor.configs |->
                   [id |-> ExperimentIds[i], pid |-> "11", is_alive |-> TRUE,
                    config |-> ExperimentConfig(executor.configs[i],
                                                executor.branches_configs[i],
                                                executor.executor_config)]]]
    /\ UNCHANGED mvars

\* The experiment as the monitor sees it at the current iteration.
Reported(e) == [id |-> e.id, pid |-> e.pid, iteration |-> executor.iteration,
                exception |-> "StopIteration"]

\* Where the run goes after the experiment at index is dealt with, alive telling
\* which experiments are still running: the next experiment of this iteration,
\* or the first one of the next iteration; the run ends after n_iters
\* iterations, or when no experiment is left running.
ExecutorAdvance(alive) ==
    IF executor.index < Len(executor.experiments)
    THEN [pc |-> "start", iteration |-> executor.iteration, index |-> executor.index + 1]
    ELSE IF \/ \A i \in DOMAIN alive : ~alive[i]
            \/ (executor.n_iters # Absent /\ executor.iteration + 1 >= executor.n_iters[1])
         THEN [pc |-> "done", iteration |-> executor.iteration, index |-> executor.index]
         ELSE [pc |-> "start", iteration |-> executor.iteration + 1, index |-> 1]

\* Executor.run reaches an experiment that has stopped: nothing is executed.
ExecutorSkip ==
    /\ executor.pc = "start"
    /\ ~executor.experiments[executor.index].is_alive
    /\ LET a == ExecutorAdvance([i \in DOMAIN executor.experiments |->
                                     executor.experiments[i].is_alive])
       IN  executor' = [executor EXCEPT !.pc = a.pc, !.iteration = a.iteration,
                                        !.index = a.index]
    /\ UNCHANGED mvars

\* Executor.run begins the unit 'sum' of a running experiment.
ExecutorStart ==
    /\ executor.pc = "start"
    /\ executor.experiments[executor.index].is_alive
    /\ send(start_execution("sum", Reported(executor.experiments[executor.index])))
    /\ executor' = [executor EXCEPT !.pc = "call"]

\* Mutant: a generator that ran out stops every experiment of the executor.
ExecutorCall_stops_all ==
    /\ executor.pc = "call"
    /\ LET e == executor.experiments[executor.index]
           exhausted == executor.iteration >= e.config.n
           alive == [i \in DOMAIN executor.experiments |->
                        executor.experiments[i].is_alive /\ ~exhausted]
           a == ExecutorAdvance(alive)
       IN  /\ send(IF exhausted THEN stop_iteration("sum", Reported(e))
                                ELSE finish_execution("sum", Reported(e)))
           /\ executor' = [executor EXCEPT
                   !.pc = a.pc, !.iteration = a.iteration, !.index = a.index,
                   !.experiments = [i \in DOMAIN executor.experiments |->
                                       [executor.experiments[i] EXCEPT !.is_alive = alive[i]]]]

\* The unit 'sum', a generator of config n values, is called: it yields its
\* next value, or, having none left, raises StopIteration, which stops this
\* experiment and no other.
ExecutorCall ==
    /\ executor.pc = "call"
    /\ LET e == executor.experiments[executor.index]
           exhausted == executor.iteration >= e.config.n
           alive == [i \in DOMAIN executor.experiments |->
                        IF i = executor.index
                        THEN ~exhausted
                        ELSE executor.experiments[i].is_alive]
           a == ExecutorAdvance(alive)
       IN  /\ send(IF exhausted THEN stop_iteration("sum", Reported(e))
                                ELSE finish_execution("sum", Reported(e)))
           /\ executor' = [executor EXCEPT
                   !.pc = a.pc, !.iteration = a.iteration, !.index = a.index,
                   !.experiments = [i \in DOMAIN executor.experiments |->
                                       [executor.experiments[i] EXCEPT !.is_alive = alive[i]]]]

\* ------------------------------------------------------------ specifications
\* DynamicQueue.__init__ over a Domain of some size, with some branch count.
DQInit ==
    /\ \E s \in 0..MaxSize : domain = Domain(0, s)
    /\ retired = << >>
    /\ updates_left = MaxUpdates
    /\ n_branches \in 1..MaxBranches
    /\ queue = << >>
    /\ unfinished = 0
    /\ withdrawn_tasks = 0
    /\ finished_tasks = 0
    /\ enqueued = << >>
    /\ worker = [w \in Workers |-> [st |-> "idle", item |-> None]]
    /\ received = << >>
    /\ sentinels_got = [w \in Workers |-> 0]
    /\ sentinels_put = 0
    /\ waves = [joins |-> 0, acked |-> 0, wave |-> 0]

Init == DQInit /\ pc = "free" /\ MInit /\ RIdle /\ ResIdle /\ XIdle

\* Spec: any sequence of queue operations by one producer (next_tasks,
\* stop_workers, join) and by the consumers (get, task_done).
Next ==
    \/ /\ \E n \in 0..MaxN : next_tasks(n)
       /\ UNCHANGED <<pc, mvars, rvars>>
    \/ /\ \E n \in 0..NWorkers :
            /\ sentinels_put + n <= MaxSentinels
            /\ stop_workers(n)
       /\ UNCHANGED <<pc, mvars, rvars>>
    \/ /\ finished_tasks < MaxFinished
       /\ join
       /\ UNCHANGED <<pc, mvars, rvars>>
    \/ /\ \E w \in Workers : get(w)
       /\ UNCHANGED <<pc, mvars, rvars>>
    \/ /\ \E w \in Workers : task_done(w)
       /\ UNCHANGED <<pc, mvars, rvars>>

Spec == Init /\ [][Next]_vars

\* SpecDomain: any sequence of the producer's calls next_tasks, update_domain
\* and join, with one consumer draining the queue.
NextDomain ==
    \/ /\ \E n \in 0..MaxN : next_tasks(n)
       /\ UNCHANGED <<pc, mvars, rvars>>
    \/ /\ update_domain
       /\ UNCHANGED <<pc, mvars, rvars>>
    \/ /\ finished_tasks < MaxFinished
       /\ join
       /\ UNCHANGED <<pc, mvars, rvars>>
    \/ /\ get(1)
       /\ UNCHANGED <<pc, mvars, rvars>>
    \/ /\ task_done(1)
       /\ UNCHANGED <<pc, mvars, rvars>>

SpecDomain == Init /\ [][NextDomain]_vars

\* SpecStop: the producer puts tasks, then calls stop_workers(NWorkers) once
\* and puts nothing more; the workers pull throughout and are scheduled fairly.
StopPut == /\ pc = "free"
           /\ \E n \in 1..MaxN : next_tasks(n)
           /\ UNCHANGED <<pc, mvars, rvars>>
StopStop == /\ pc = "free"
            /\ stop_workers(NWorkers)
            /\ pc' = "stopped"
            /\ UNCHANGED <<mvars, rvars>>
WorkerGet(w) == get(w) /\ UNCHANGED <<pc, mvars, rvars>>
WorkerDone(w) == task_done(w) /\ UNCHANGED <<pc, mvars, rvars>>

NextStop ==
    \/ StopPut
    \/ StopStop
    \/ \E w \in Workers : WorkerGet(w)
    \/ \E w \in Workers : WorkerDone(w)

WorkerFairness == \A w \in Workers : WF_vars(WorkerGet(w)) /\ WF_vars(WorkerDone(w))

SpecStop == Init /\ [][NextStop]_vars /\ WorkerFairness

\* SpecRun: the distributor loop over the queue, with the workers: prime the
\* queue; while in_progress(): join, update_domain, refill; then stop_workers.
RunInit == DQInit /\ pc = "prime" /\ MInit /\ RIdle /\ ResIdle /\ XIdle

DistPrime == /\ pc = "prime"
             /\ \E n \in 1..MaxN : next_tasks(n)
             /\ pc' = "loop"
             /\ UNCHANGED <<mvars, rvars>>
DistLoop == /\ pc = "loop"
            /\ pc' = IF in_progress THEN "join" ELSE "stop"
            /\ UNCHANGED <<domain, retired, updates_left, n_branches, queue, unfinished,
                           withdrawn_tasks, finished_tasks, enqueued, worker, received,
                           sentinels_got, sentinels_put, waves, mvars, rvars>>
DistJoin == /\ pc = "join"
            /\ join
            /\ pc' = "update"
            /\ UNCHANGED <<mvars, rvars>>
DistUpdate == /\ pc = "update"
              /\ update_domain
              /\ pc' = "refill"
              /\ UNCHANGED <<mvars, rvars>>
DistRefill == /\ pc = "refill"
              /\ \E n \in 1..MaxN : next_tasks(n)
              /\ pc' = "loop"
              /\ UNCHANGED <<mvars, rvars>>
DistStop == /\ pc = "stop"
            /\ stop_workers(NWorkers)
            /\ pc' = "done"
            /\ UNCHANGED <<mvars, rvars>>

Distributor == DistPrime \/ DistLoop \/ DistJoin \/ DistUpdate \/ DistRefill \/ DistStop

NextRun ==
    \/ DistPrime
    \/ DistLoop
    \/ DistJoin
    \/ DistUpdate
    \/ DistRefill
    \/ DistStop
    \/ \E w \in Workers : WorkerGet(w)
    \/ \E w \in Workers : WorkerDone(w)

SpecRun == RunInit /\ [][NextRun]_vars /\ WF_vars(Distributor) /\ WorkerFairness

\* SpecMonitor: the monitor's owner starts it once, signals are sent, the owner
\* stops it; the listener runs in its own process.
NextMonitor ==
    \/ /\ mpc = "new"
       /\ \E d \in BOOLEAN : start(d)
       /\ UNCHANGED <<dqvars, rvars>>
    \/ /\ n_sent < MaxSignals
       /\ \E s \in Signals : send(s)
       /\ UNCHANGED <<dqvars, rvars>>
    \/ /\ stop
       /\ UNCHANGED <<dqvars, rvars>>
    \/ /\ listener_get
       /\ UNCHANGED <<dqvars, rvars>>
    \/ /\ listener_write
       /\ UNCHANGED <<dqvars, rvars>>

SpecMonitor == Init /\ [][NextMonitor]_vars

\* A log left on the path by an earlier monitor: the header and one row.
OldLog == [exists |-> TRUE,
           rows |-> <<COLUMNS, Row(finish_execution("unit", TheExperiment))>>]

\* SpecStart: a monitor whose path may already hold a log, and which is started
\* again each time its previous listener has ended (on the sentinel or on a
\* failed write).
StartInit ==
    /\ DQInit /\ domain = Domain(0, 0) /\ n_branches = 1 /\ pc = "free"
    /\ mqueue = << >>
    /\ dump = FALSE
    /\ file \in {[exists |-> FALSE, rows |-> << >>], OldLog}
    /\ lpc = "none"
    /\ signal = NoSignal
    /\ consumed = << >>
    /\ sent_before = << >>
    /\ n_sent = 0
    /\ mpc = "new"
    /\ RIdle /\ ResIdle /\ XIdle

NextStart ==
    \/ /\ lpc \in {"none", "exited", "crashed"}
       /\ \E d \in BOOLEAN : start(d)
       /\ UNCHANGED <<dqvars, rvars>>
    \/ /\ n_sent < MaxSignals
       /\ \E s \in Signals : send(s)
       /\ UNCHANGED <<dqvars, rvars>>
    \/ /\ stop
       /\ UNCHANGED <<dqvars, rvars>>
    \/ /\ listener_get
       /\ UNCHANGED <<dqvars, rvars>>
    \/ /\ listener_write
       /\ UNCHANGED <<dqvars, rvars>>

SpecStart == StartInit /\ [][NextStart]_vars

\* devices=None.
DevicesNone == << >>

\* The flat lists of distinct device identifiers, 1 to MaxDevices long.
DeviceLists ==
    {d \in UNION {[1..n -> 0..(MaxDevices - 1)] : n \in 1..MaxDevices} :
        \A i, j \in DOMAIN d : i # j => d[i] # d[j]}

\* SpecResearch: one call of run, with the monitor's listener and the signals
\* sent while the distributor runs. The call is made with or without
\* dump_results, on a name whose folder exists or not, over a domain whose size
\* is known or not and that is never updated, updated at 'last', or periodically.
ResearchInit ==
    /\ DQInit /\ domain = Domain(0, 0) /\ n_branches = 1
    /\ pc = "free"
    /\ MInit
    /\ XIdle
    /\ rpc = "call"
    /\ args \in [dump_results : BOOLEAN, size_known : BOOLEAN,
                 update : {"none", "last", "each"},
                 devices : {DevicesNone, <<0, 1, 2>>},
                 workers : {NWorkers}, branches : {1},
                 folder0 : {NoFolder, OldFolder}]
    /\ folder = args.folder0
    /\ created = {}
    /\ warned = FALSE
    /\ error = "none"
    /\ self_devices = << >>
    /\ ResIdle

NextResearch ==
    \/ RunCall /\ UNCHANGED <<dqvars, mvars, resvars, xvars>>
    \/ RunFolder /\ UNCHANGED <<dqvars, mvars, resvars, xvars>>
    \/ RunEnv /\ UNCHANGED <<dqvars, mvars, resvars, xvars>>
    \/ RunWarn /\ UNCHANGED <<dqvars, mvars, resvars, xvars>>
    \/ RunLogger /\ UNCHANGED <<dqvars, mvars, resvars, xvars>>
    \/ RunQueue /\ UNCHANGED <<dqvars, mvars, resvars, xvars>>
    \/ RunMonitorStart /\ UNCHANGED <<dqvars, resvars, xvars>>
    \/ RunDistSend /\ UNCHANGED <<dqvars, resvars, xvars>>
    \/ RunDistReturn /\ UNCHANGED <<dqvars, resvars, xvars>>
    \/ RunMonitorStop /\ UNCHANGED <<dqvars, resvars, xvars>>
    \/ listener_get /\ UNCHANGED <<dqvars, rvars>>
    \/ listener_write /\ UNCHANGED <<dqvars, rvars>>

SpecResearch == ResearchInit /\ [][NextResearch]_vars

\* SpecRaise: as SpecResearch, and distributor.run may raise instead of returning.
NextRaise ==
    \/ NextResearch
    \/ RunDistRaise /\ UNCHANGED <<dqvars, resvars, xvars>>

SpecRaise == ResearchInit /\ [][NextRaise]_vars

\* SpecDevices: get_devices, as run calls it, over the flat lists of distinct
\* devices (and None) and the worker and branch counts.
DevicesInit ==
    /\ DQInit /\ domain = Domain(0, 0) /\ n_branches = 1
    /\ pc = "free"
    /\ MInit
    /\ XIdle
    /\ rpc = "call"
    /\ args \in [dump_results : {FALSE}, size_known : {TRUE}, update : {"none"},
                 devices : DeviceLists \cup {DevicesNone},
                 workers : 1..NWorkers, branches : 1..MaxBranches,
                 folder0 : {NoFolder}]
    /\ folder = args.folder0
    /\ created = {}
    /\ warned = FALSE
    /\ error = "none"
    /\ self_devices = << >>
    /\ ResIdle

NextDevices == RunCall /\ UNCHANGED <<dqvars, mvars, resvars, xvars>>

SpecDevices == DevicesInit /\ [][NextDevices]_vars

\* The dumped results load finds: those of both experiments, the second unit
\* of the second dumped in two checkpoints.
Disk ==
    [e1 |-> [loss |-> (1 :> (0 :> 10 @@ 1 :> 11))],
     e2 |-> [loss |-> (1 :> (0 :> 20 @@ 1 :> 21)),
             acc |-> (0 :> (0 :> 4) @@ 1 :> (1 :> 5))]]

\* SpecResults: one process uses the store, a call at a time.
ResultsInit ==
    /\ DQInit /\ domain = Domain(0, 0) /\ n_branches = 1
    /\ pc = "free"
    /\ MInit
    /\ XIdle
    /\ RIdle
    /\ results = EmptyDict
    /\ configs = EmptyDict
    /\ rdump \in BOOLEAN
    /\ disk = IF rdump THEN Disk ELSE EmptyDict
    /\ ret = [op |-> "none"]
    /\ last_put = EmptyDict
    /\ loaded = FALSE
    /\ inflight = [p \in Callers |-> NoPut]
    /\ n_puts = 0
    /\ res_from = EmptyDict
    /\ cfg_from = EmptyDict

NextResults ==
    \/ ResPut /\ UNCHANGED <<dqvars, mvars, runvars, xvars>>
    \/ ResToDf /\ UNCHANGED <<dqvars, mvars, runvars, xvars>>
    \/ ResConfigsToDf /\ UNCHANGED <<dqvars, mvars, runvars, xvars>>
    \/ ResFilter /\ UNCHANGED <<dqvars, mvars, runvars, xvars>>
    \/ ResLoad /\ UNCHANGED <<dqvars, mvars, runvars, xvars>>

SpecResults == ResultsInit /\ [][NextResults]_vars

\* SpecPut: the callers put from their own processes; the two writes of one
\* put can be separated by the writes of another.
NextPut ==
    \/ \E p \in Callers, id \in {ExperimentIds[k] : k \in 1..Len(ExperimentIds)},
          r \in ResultValues, c \in Configs :
           put_results(p, id, r, c) /\ UNCHANGED <<dqvars, mvars, runvars, xvars>>
    \/ \E p \in Callers : put_configs(p) /\ UNCHANGED <<dqvars, mvars, runvars, xvars>>

SpecPut == Init /\ [][NextPut]_vars

\* The checkpoint files of one unit dumped at the checkpoints cps: each file
\* holds the iterations after the previous checkpoint up to its own number.
FilesAt(cps) ==
    [c \in cps |-> [t \in {t \in 0..c : \A c2 \in cps : c2 < c => c2 < t} |-> 100 + t]]

\* The iteration arguments: None, and the lists of one or two iterations.
IterationArgs ==
    {Absent} \cup {Given(<<t>>) : t \in 0..MaxIteration}
             \cup {Given(<<t, u>>) : t \in 0..MaxIteration, u \in 0..MaxIteration}

\* SpecFiles: load_iteration_files over every set of checkpoints and every
\* iteration argument.
FilesInit ==
    /\ DQInit /\ domain = Domain(0, 0) /\ n_branches = 1
    /\ pc = "free"
    /\ MInit
    /\ XIdle
    /\ RIdle
    /\ results = EmptyDict
    /\ configs = EmptyDict
    /\ rdump = TRUE
    /\ disk = EmptyDict
    /\ \E cps \in SUBSET (0..MaxIteration), iteration \in IterationArgs :
           ret = [op |-> "call", files |-> FilesAt(cps), iteration |-> iteration]
    /\ last_put = EmptyDict
    /\ loaded = FALSE
    /\ inflight = [p \in Callers |-> NoPut]
    /\ n_puts = 0
    /\ res_from = EmptyDict
    /\ cfg_from = EmptyDict

FilesLoad ==
    /\ ret.op = "call"
    /\ LET r == load_iteration_files(ret.files, ret.iteration)
       IN  ret' = [op |-> "load_iteration_files", files |-> ret.files,
                   iteration |-> ret.iteration, raised |-> r.raised,
                   read |-> r.read, values |-> r.values]
    /\ UNCHANGED <<results, configs, rdump, disk, last_put, loaded, inflight, n_puts,
                   res_from, cfg_from>>

NextFiles == FilesLoad /\ UNCHANGED <<dqvars, mvars, runvars, xvars>>

SpecFiles == FilesInit /\ [][NextFiles]_vars

\* SpecCalls: the producer's calls next_tasks, update_domain and join in any
\* order while no consumer takes anything from the queue, so that join returns
\* only as long as nothing was put; ret keeps the last call's arguments and
\* the value it returned.
OtherResults == <<results, configs, rdump, disk, last_put, loaded, inflight, n_puts,
                  res_from, cfg_from>>

CallNextTasks ==
    \E n \in 0..MaxN :
        /\ next_tasks(n)
        /\ ret' = [op |-> "next_tasks", n_tasks |-> n, value |-> next_tasks_returns(n)]

CallUpdateDomain ==
    /\ update_domain
    /\ ret' = [op |-> "update_domain", args |-> update_args]

NextCalls ==
    \/ /\ CallNextTasks
       /\ UNCHANGED <<pc, mvars, runvars, OtherResults, xvars>>
    \/ /\ CallUpdateDomain
       /\ UNCHANGED <<pc, mvars, runvars, OtherResults, xvars>>
    \/ /\ finished_tasks < MaxFinished
       /\ join
       /\ UNCHANGED <<pc, mvars, rvars>>

SpecCalls == Init /\ [][NextCalls]_vars

\* The Configurations over the keys n and x in which every key present has
\* the value v.
Layers(v) == {[k \in K |-> v] : K \in SUBSET {"n", "x"}}

\* The n_iters arguments: None, and 1 to MaxIteration + 1.
NItersArgs == {Absent} \cup {Given(k) : k \in 1..(MaxIteration + 1)}

\* SpecExecutor: an Executor over two experiments whose unit 'sum' is a
\* generator of config n values, constructed with every combination of
\* per-experiment, per-branch and executor Configurations that gives both
\* experiments an n, and run for n_iters iterations or until exhaustion.
ExecutorInit ==
    /\ DQInit /\ domain = Domain(0, 0) /\ n_branches = 1
    /\ pc = "free"
    /\ MInit
    /\ RIdle /\ ResIdle
    /\ \E c1 \in Layers(0), c2 \in Layers(2), b1 \in Layers(2), b2 \in Layers(3),
          ec \in Layers(1), n \in NItersArgs :
           /\ "n" \in DOMAIN c1 \cup DOMAIN b1 \cup DOMAIN ec
           /\ "n" \in DOMAIN c2 \cup DOMAIN b2 \cup DOMAIN ec
           /\ executor = [pc |-> "new", n_iters |-> n, configs |-> <<c1, c2>>,
                          branches_configs |-> <<b1, b2>>, executor_config |-> ec]

NextExecutor ==
    \/ ExecutorNew /\ UNCHANGED <<dqvars, runvars, resvars>>
    \/ ExecutorSkip /\ UNCHANGED <<dqvars, runvars, resvars>>
    \/ ExecutorStart /\ UNCHANGED <<dqvars, runvars, resvars>>
    \/ ExecutorCall /\ UNCHANGED <<dqvars, runvars, resvars>>

SpecExecutor == ExecutorInit /\ [][NextExecutor]_vars

\* ------------------------------------------------------------------ claims
Ids(s) == {s[i].id : i \in 1..Len(s)}
Occurrences(s, x) == Cardinality({i \in 1..Len(s) : s[i] = x})
CeilDiv(a, b) == (a + b - 1) \div b

\* Every Domain the queue has drawn from, oldest first, the current one last.
Generations == Append(retired, domain)

\* A task is marked done once a worker received it and called task_done for it.
Done(t) ==
    /\ Occurrences(received, t) > 0
    /\ \A w \in Workers : ~(worker[w].st = "busy" /\ worker[w].item = t)
AllTasksDone == \A i \in 1..Len(enqueued) : Done(enqueued[i])

\* C1: withdrawn_tasks >= finished_tasks in every state reachable by any
\* sequence of DynamicQueue operations.
C1_WithdrawnGeFinished == withdrawn_tasks >= finished_tasks

\* C2: tasks are put with strictly increasing ids, in the order their
\* configurations are drawn (generation, then position in the Domain), so no
\* id is reused, whatever next_tasks, join and update_domain calls interleave.
C2_IdsIncreaseInDrawOrder ==
    \A i, j \in 1..Len(enqueued) :
        i < j =>
            /\ enqueued[i].id < enqueued[j].id
            /\ \A a \in 1..Len(enqueued[i].configs), b \in 1..Len(enqueued[j].configs) :
                  LET x == enqueued[i].configs[a]
                      y == enqueued[j].configs[b]
                  IN  x[1] < y[1] \/ (x[1] = y[1] /\ x[2] < y[2])

C2_Witness ==
    /\ Len(enqueued) >= 3
    /\ finished_tasks >= 1
    /\ enqueued[1].configs[1][1] # enqueued[Len(enqueued)].configs[1][1]

\* C3: once a Domain of size S that was never replaced is exhausted, the
\* number of distinct task ids put is ceil(S / n_branches), whatever the n of
\* each next_tasks call.
C3_TaskCountIsCeil ==
    (retired = << >> /\ ~DomainHasNext(domain)) =>
        Cardinality(Ids(enqueued)) = CeilDiv(domain.size, n_branches)

C3_Witness ==
    /\ retired = << >>
    /\ ~DomainHasNext(domain)
    /\ domain.size = 3
    /\ n_branches = 2
    /\ Len(enqueued) = 2

\* The tasks whose configurations come from generation g, in put order.
TasksOf(g) == SelectSeq(enqueued, LAMBDA t : t.configs # << >> /\ t.configs[1][1] = g)

RECURSIVE Flatten(_)
Flatten(ts) == IF ts = << >> THEN << >> ELSE Head(ts).configs \o Flatten(Tail(ts))

\* C4: the batches put from each Domain hold exactly the configurations drawn
\* from it, each once and in order, never more than it has; no batch is empty;
\* every batch holds n_branches configurations except possibly the last one of
\* that Domain, which holds fewer iff the Domain ran out in the middle of it.
C4_BatchShapes ==
    /\ \A i \in 1..Len(enqueued) :
          /\ Len(enqueued[i].configs) >= 1
          /\ Len(enqueued[i].configs) <= n_branches
    /\ \A g \in 1..Len(Generations) :
          LET d == Generations[g]
              ts == TasksOf(d.gen)
          IN  /\ d.pos <= d.size
              /\ Flatten(ts) = [k \in 1..d.pos |-> <<d.gen, k>>]
              /\ \A i \in 1..Len(ts) :
                    Len(ts[i].configs) < n_branches <=>
                        /\ i = Len(ts)
                        /\ d.pos = d.size
                        /\ d.size % n_branches # 0

C4_Witness ==
    /\ Len(enqueued) >= 2
    /\ Len(enqueued[Len(enqueued)].configs) < n_branches
    /\ Len(enqueued[1].configs) = n_branches

\* C5: a step in which join() returns adds exactly 1 to finished_tasks, however
\* many items were acknowledged in its wave, and changes neither
\* withdrawn_tasks nor the Domain.
C5_JoinAddsOne ==
    [][waves'.joins # waves.joins =>
          /\ finished_tasks' = finished_tasks + 1
          /\ withdrawn_tasks' = withdrawn_tasks
          /\ domain' = domain]_vars

C5_Witness ==
    /\ waves.joins >= 2
    /\ waves.wave >= 3
    /\ sentinels_put >= 1
    /\ finished_tasks = waves.joins

\* C6: when tasks were put by next_tasks, every one of them has been marked
\* done and join() has returned after the last acknowledgement,
\* finished_tasks = withdrawn_tasks and in_progress() is false.
C6_AllDoneMeansNotInProgress ==
    (/\ enqueued # << >>
     /\ AllTasksDone
     /\ waves.joins >= 1
     /\ waves.acked = Len(enqueued) + sentinels_put)
        => (finished_tasks = withdrawn_tasks /\ ~in_progress)

\* C8: every task put by next_tasks is either still on the queue or was
\* received exactly once, by exactly one worker; no two workers hold the same
\* task.
C8_ReceivedExactlyOnce ==
    /\ \A i \in 1..Len(enqueued) :
          Occurrences(received, enqueued[i]) + Occurrences(queue, enqueued[i]) = 1
    /\ \A v, w \in Workers :
          (v # w /\ worker[v].st = "busy" /\ worker[w].st = "busy"
                 /\ worker[v].item # None) => worker[v].item # worker[w].item

C8_Witness ==
    /\ \A w \in Workers : worker[w].st = "busy" /\ worker[w].item # None
    /\ Len(enqueued) >= 3
    /\ queue # << >>

\* C7: after stop_workers(NWorkers), with every worker stopping at its first
\* sentinel: no worker ever receives two sentinels, once the queue is drained
\* every worker has received exactly one, when all workers have stopped every
\* task put before the sentinels has been received and marked done, and every
\* worker does eventually stop with its one sentinel.
SentinelsGot(w) == sentinels_got[w]
AllStopped == \A w \in Workers : worker[w].st = "stopped"

C7_Safe ==
    /\ \A w \in Workers : SentinelsGot(w) <= 1
    /\ (pc = "stopped" /\ queue = << >>) => \A w \in Workers : SentinelsGot(w) = 1
    /\ AllStopped => (AllTasksDone /\ \A w \in Workers : SentinelsGot(w) = 1)

C7_OneSentinelEach ==
    /\ []C7_Safe
    /\ (pc = "stopped") ~> (AllStopped /\ \A w \in Workers : SentinelsGot(w) = 1)

C7_Witness ==
    /\ AllStopped
    /\ Len(enqueued) >= 3
    /\ Len(received) >= 3

\* C9: under the distributor loop (prime with next_tasks, join after each
\* wave, update and refill while in_progress(), then stop_workers) with fair
\* scheduling, the distributor reaches its end and every worker stops, each
\* having received a sentinel.
C9_RunTerminates ==
    <>[](pc = "done" /\ AllStopped /\ \A w \in Workers : SentinelsGot(w) = 1)

C9_Witness ==
    /\ pc = "done"
    /\ AllStopped
    /\ retired # << >>
    /\ Len(enqueued) >= 4
    /\ finished_tasks = withdrawn_tasks

\* C10: once stop() has been called and the listener has exited, every signal
\* sent before stop() put the sentinel has been received by the listener and,
\* with dumping enabled, written to the log.
RECURSIVE Rows(_)
Rows(ss) == IF ss = << >> THEN << >> ELSE <<Row(Head(ss))>> \o Rows(Tail(ss))

C10_ListenerDrainsBeforeExit ==
    (mpc = "stopped" /\ lpc \in {"exited", "crashed"}) =>
        /\ consumed = sent_before
        /\ dump => file.rows = <<COLUMNS>> \o Rows(sent_before)

\* C11: a failure to write a row of the monitor log never ends the listener:
\* whatever a write did, the listener is still in its loop (about to take the
\* next signal or to write the one it holds) or has left it on the sentinel.
C11_ListenerSurvivesWriteFailure == lpc # "crashed"

\* C12: when run is called over a domain of unknown size that is never updated
\* (or updated only at 'last'), run does not raise because of it: once it is past
\* the check the warning has been issued, and it goes on to create the logger,
\* the queue, the distributor and the monitor.
C12_WarnsAndProceeds ==
    InfiniteDomain(args) =>
        /\ error # "NameError"
        /\ rpc \in {"logger", "queue", "monitor", "dist", "stop", "returned"} => warned

\* C13: with dump_results, run on a name whose folder exists raises: the folder
\* stays as it was and no logger, queue, distributor, monitor or listener is
\* created or started.
C13_ExistingFolderRefused ==
    (rpc # "idle" /\ args.dump_results /\ args.folder0.exists) =>
        /\ rpc \in {"call", "folder", "raised"}
        /\ rpc = "raised" => error = "ValueError"
        /\ folder = args.folder0
        /\ created = {}
        /\ lpc = "none" /\ mpc = "new" /\ mqueue = << >>

C13_Witness ==
    /\ args.dump_results /\ args.folder0.exists
    /\ rpc = "raised" /\ error = "ValueError"
    /\ folder = OldFolder

\* The worker and branch pairs of an assignment, and the devices of one.
Slots(dv) == UNION {{<<i, j>> : j \in DOMAIN dv[i]} : i \in DOMAIN dv}
DevicesOf(dv, p) == {dv[p[1]][p[2]][k] : k \in DOMAIN dv[p[1]][p[2]]}
PairwiseDisjoint(dv) ==
    \A p, q \in Slots(dv) : p # q => DevicesOf(dv, p) \cap DevicesOf(dv, q) = {}

\* A flat list of devices was passed and get_devices has returned.
FlatAssigned == rpc = "folder" /\ args.devices # DevicesNone

\* C14 as stated: for every flat list of distinct devices and every worker and
\* branch count, the device sets of any two different (worker, branch) pairs
\* are disjoint.
C14_AlwaysDisjoint == FlatAssigned => PairwiseDisjoint(self_devices)

\* C14: get_devices gives every (worker, branch) pair a non-empty share, all of
\* one size, and the shares are pairwise disjoint exactly when the length of
\* the list is a multiple of workers x branches; otherwise the list is
\* stretched or padded with repeated devices and two pairs share a device.
C14_DisjointIffMultiple ==
    FlatAssigned =>
        LET total == args.workers * args.branches
        IN  /\ Len(self_devices) = args.workers
            /\ \A i \in DOMAIN self_devices : Len(self_devices[i]) = args.branches
            /\ \A p, q \in Slots(self_devices) :
                   /\ DevicesOf(self_devices, p) # {}
                   /\ Len(self_devices[p[1]][p[2]]) = Len(self_devices[q[1]][q[2]])
            /\ PairwiseDisjoint(self_devices) <=> (Len(args.devices) % total = 0)

C14_Witness ==
    /\ FlatAssigned
    /\ args.workers = 2 /\ args.branches = 2 /\ Len(args.devices) = 4
    /\ PairwiseDisjoint(self_devices)
    /\ DevicesOf(self_devices, <<2, 1>>) = {DeviceStr(args.devices[3])}

\* The (id, name, iteration) triples a results dict has a value for.
Entries(res) ==
    UNION {UNION {{<<i, n, t>> : t \in DOMAIN res[i][n]} : n \in DOMAIN res[i]} :
               i \in DOMAIN res}

\* rows has exactly one row for each stored (id, name, iteration), with its
\* value, and no other row.
OneRowPerEntry(rows, res) ==
    /\ Len(rows) = Cardinality(Entries(res))
    /\ \A e \in Entries(res) :
           Cardinality({k \in 1..Len(rows) :
                           /\ rows[k].id = e[1] /\ rows[k].name = e[2]
                           /\ rows[k].iteration = e[3]
                           /\ rows[k].value = res[e[1]][e[2]][e[3]]}) = 1

\* C15: put overwrites and is idempotent. After any sequence of put calls (and
\* no load), results[id] and configs[id] are the arguments of the last put for
\* id, and only ids that were put are keys; a put repeating the arguments of the
\* last put for its id leaves the store as it was; and to_df without pivot
\* returns exactly one row per stored (id, name, iteration).
C15_PutOverwrites ==
    /\ DOMAIN configs = DOMAIN last_put
    /\ \A i \in DOMAIN last_put : configs[i] = last_put[i].args.config
    /\ ~loaded =>
           /\ DOMAIN results = DOMAIN last_put
           /\ \A i \in DOMAIN last_put : results[i] = last_put[i].args.results
           /\ (ret.op = "put" /\ ret.repeated) => ret.unchanged
    /\ (ret.op = "to_df" /\ ~ret.pivot) =>
           ~ret.raised /\ OneRowPerEntry(ret.rows, results)

C15_Witness ==
    /\ ~loaded
    /\ ret.op = "put" /\ ret.replaced
    /\ DOMAIN results = {"e1", "e2"}
    /\ results[ret.id] = last_put[ret.id].args.results
    /\ configs[ret.id] = last_put[ret.id].args.config

\* No caller is between the two writes of a put.
NoPutInFlight == \A p \in Callers : inflight[p] = NoPut

\* C16: once the puts of different processes for one id have all returned,
\* results[id] and configs[id] were written by the same put call.
C16_WrittenByOnePut ==
    NoPutInFlight =>
        \A i \in (DOMAIN results) \cap (DOMAIN configs) : res_from[i] = cfg_from[i]

\* C17: whenever every put that was begun has returned, results and configs
\* have the same experiment ids as keys.
C17_SameKeys == NoPutInFlight => DOMAIN results = DOMAIN configs

C17_Witness ==
    /\ NoPutInFlight
    /\ n_puts = MaxPuts
    /\ DOMAIN results = {"e1", "e2"}
    /\ DOMAIN configs = {"e1", "e2"}

\* C18 as stated: an id that has been put is a key of results and of configs
\* after every later call on the store, load included.
C18_NeverDeleted ==
    /\ DOMAIN last_put \subseteq DOMAIN results
    /\ DOMAIN last_put \subseteq DOMAIN configs

\* C18: no call removes a key of configs, and no call but load with
\* dump_results removes a key of results; that load replaces results by what
\* the dumped files of the filtered ids and names hold.
C18_OnlyLoadDrops ==
    [][/\ DOMAIN configs \subseteq DOMAIN configs'
       /\ ~(ret'.op = "load" /\ ~ret'.raised /\ rdump) =>
              DOMAIN results \subseteq DOMAIN results']_vars

C18_Witness ==
    /\ ret.op = "load" /\ ~ret.raised /\ rdump
    /\ DOMAIN last_put = {"e1", "e2"}
    /\ DOMAIN configs = {"e1", "e2"}
    /\ DOMAIN results = {"e1"}

\* The elements of a list.
Elems(l) == {l[k] : k \in 1..Len(l)}

\* C19: filter_ids_by_configs called with a config (or an alias) and keyword
\* filters returns exactly the ids whose Config, in that form, contains every
\* pair of the config (alias) and every pair of the keyword filters, each id
\* once; so none when the two give one key different values.
C19_KwargsAreAnded ==
    (/\ ret.op = "filter" /\ ~ret.raised /\ ret.domain = Absent
     /\ DOMAIN ret.kwargs # {}
     /\ ret.config # Absent \/ ret.alias # Absent) =>
        LET form(i) == IF ret.config # Absent THEN configs[i].config ELSE configs[i].alias
            flt == IF ret.config # Absent THEN ret.config[1] ELSE ret.alias[1]
            expected == {i \in DOMAIN configs :
                            Contains(form(i), flt) /\ Contains(form(i), ret.kwargs)}
        IN  /\ Elems(ret.ids) = expected
            /\ Len(ret.ids) = Cardinality(expected)

\* C20: filter_ids_by_configs raises exactly when two or three of config,
\* alias and domain are given; when it raises it returns no ids and results
\* and configs are what they were.
C20_RejectsTwoOrMore ==
    [][ret'.op = "filter" =>
          LET c == ret'.config # Absent
              a == ret'.alias # Absent
              d == ret'.domain # Absent
          IN  /\ ret'.raised <=> ((c /\ a) \/ (c /\ d) \/ (a /\ d))
              /\ ret'.raised =>
                     ret'.ids = << >> /\ results' = results /\ configs' = configs]_vars

C20_Witness ==
    /\ ret.op = "filter" /\ ret.raised
    /\ ret.config = Absent /\ ret.alias # Absent /\ ret.domain # Absent
    /\ DOMAIN configs = {"e1", "e2"}

\* C21: filter_ids_by_configs with only a config (only an alias) returns the
\* ids whose Config in full form (alias form) has every key of the filter with
\* the filter's value, each id once; with no argument at all it returns every
\* id of configs, each once.
C21_FilterByContainment ==
    (/\ ret.op = "filter" /\ ~ret.raised /\ ret.domain = Absent
     /\ DOMAIN ret.kwargs = {}) =>
        LET form(i) == IF ret.config # Absent THEN configs[i].config ELSE configs[i].alias
            flt == IF ret.config # Absent THEN ret.config[1]
                   ELSE IF ret.alias # Absent THEN ret.alias[1]
                   ELSE EmptyDict
            expected == {i \in DOMAIN configs :
                            \A k \in DOMAIN flt : k \in DOMAIN form(i) /\ form(i)[k] = flt[k]}
        IN  /\ Elems(ret.ids) = expected
            /\ Len(ret.ids) = Cardinality(expected)

C21_Witness ==
    /\ ret.op = "filter" /\ ~ret.raised /\ ret.domain = Absent /\ DOMAIN ret.kwargs = {}
    /\ ret.config = Absent /\ ret.alias = Given(AliasDict([x |-> 2, y |-> 1]))
    /\ DOMAIN configs = {"e1", "e2"}
    /\ configs["e1"].config.x = 1 /\ configs["e2"].config.x = 2
    /\ ret.ids = <<"e2">>

\* The call was filter_ids_by_configs(domain=...) and it returned.
DomainMode == ret.op = "filter" /\ ~ret.raised /\ ret.domain # Absent

\* The ids whose Config contains every pair of at least one Config the Domain
\* of the last call produces.
MatchingSome ==
    {i \in DOMAIN configs :
        \E n \in 1..Len(ret.domain[1]) :
            \A k \in DOMAIN ret.domain[1][n].config :
                /\ k \in DOMAIN configs[i].config
                /\ configs[i].config[k] = ret.domain[1][n].config[k]}

\* C22: in domain mode the result is the union of the matches of the produced
\* Configs: an id is returned iff it matches at least one of them, and each
\* returned id is in the list exactly once.
C22_DomainModeIsUnion ==
    DomainMode =>
        /\ Elems(ret.ids) = MatchingSome
        /\ Len(ret.ids) = Cardinality(MatchingSome)

\* The (id, iteration) pairs at which some unit of the experiment has a value.
IterationsOf(res) ==
    UNION {UNION {{<<i, t>> : t \in DOMAIN res[i][n]} : n \in DOMAIN res[i]} :
               i \in DOMAIN res}

\* rows has exactly one row for each (id, iteration) at which some unit has a
\* value, and a column for every unit of the experiment.
OneRowPerIteration(rows, res) ==
    /\ Len(rows) = Cardinality(IterationsOf(res))
    /\ \A e \in IterationsOf(res) :
           Cardinality({k \in 1..Len(rows) :
                           rows[k].id = e[1] /\ rows[k].iteration = e[2]}) = 1
    /\ \A k \in 1..Len(rows) :
           DOMAIN rows[k] = {"id", "iteration"} \cup DOMAIN res[rows[k].id]

\* C23: without the config columns, to_df with pivot has one row per
\* (id, iteration) at which at least one unit stored a value, with a column
\* per unit name; without pivot it has one row per stored (id, name, iteration).
C23_RowsOfToDf ==
    (ret.op = "to_df" /\ ~ret.include_config /\ ~ret.raised) =>
        IF ret.pivot
        THEN OneRowPerIteration(ret.rows, results)
        ELSE OneRowPerEntry(ret.rows, results)

\* load_iteration_files was called with a list of iterations.
LoadedWithList == ret.op = "load_iteration_files" /\ ret.iteration # Absent

\* The checkpoint the claim names for a requested iteration: the smallest
\* stored checkpoint number >= it.
CheckpointFor(it) ==
    CHOOSE c \in DOMAIN ret.files : c >= it /\ \A c2 \in DOMAIN ret.files : c2 >= it => c <= c2

\* C24: for every set of stored checkpoints and every requested iteration list,
\* the checkpoint with the smallest number >= it is read for each requested
\* iteration it that has one, no other file is read, and the loaded series has
\* only requested iterations, with the values stored for them.
C24_SmallestCheckpointAtLeast ==
    LoadedWithList =>
        LET requested == Elems(ret.iteration[1])
            served == {it \in requested : \E c \in DOMAIN ret.files : c >= it}
        IN  /\ ret.read = {CheckpointFor(it) : it \in served}
            /\ DOMAIN ret.values \subseteq requested
            /\ \A t \in DOMAIN ret.values : ret.values[t] = 100 + t

\* C25: run does its steps in order. Nothing is constructed before the
\* devices are partitioned; the queue and the distributor exist before the
\* listener is started; the listener is started before distributor.run begins,
\* so no signal is sent before it exists; the sentinel is put only after
\* distributor.run has returned, and run returns right after putting it.
C25_RunOrder ==
    rpc # "idle" =>
        /\ created # {} => self_devices # << >>
        /\ lpc # "none" => {"queue", "distributor", "monitor"} \subseteq created
        /\ rpc \in {"dist", "stop", "returned"} <=> lpc # "none"
        /\ n_sent > 0 => lpc # "none"
        /\ rpc \in {"dist", "stop"} => mpc = "started"
        /\ mpc = "stopped" <=> rpc = "returned"
        /\ rpc = "returned" => error = "none"

C25_Witness ==
    /\ rpc = "returned" /\ error = "none"
    /\ n_sent = MaxSignals
    /\ mpc = "stopped" /\ lpc = "exited"
    /\ created = {"logger", "queue", "distributor", "results", "monitor"}
    /\ self_devices = get_devices(<<0, 1, 2>>, NWorkers, 1)

\* The value a row holds for a column: the signal's field, empty when it has none.
Field(s, k) == IF k \in DOMAIN s THEN s[k] ELSE ""

\* The signals whose row the listener has finished writing: all it has dequeued
\* but the one it still holds, or the one whose write raised.
Written ==
    IF lpc \in {"write", "crashed"} THEN SubSeq(consumed, 1, Len(consumed) - 1) ELSE consumed

\* C26: once started with dumping, the log is the header followed by one row per
\* non-sentinel signal the listener has dequeued and written, in dequeue order,
\* each row holding the ten columns time, task_idx, id, it, name, status,
\* exception, worker, pid, worker_pid with the empty string for a field the
\* signal lacks; started without dumping, there is no log file, nothing is
\* written, the listener cannot fail and leaves its loop having consumed every
\* signal sent before stop.
C26_OneRowPerSignal ==
    lpc # "none" =>
        IF dump
        THEN /\ file.exists
             /\ Len(file.rows) = Len(Written) + 1
             /\ \A k \in 1..Len(Written) :
                    file.rows[k + 1] =
                        <<Field(Written[k], "time"), Field(Written[k], "task_idx"),
                          Field(Written[k], "id"), Field(Written[k], "it"),
                          Field(Written[k], "name"), Field(Written[k], "status"),
                          Field(Written[k], "exception"), Field(Written[k], "worker"),
                          Field(Written[k], "pid"), Field(Written[k], "worker_pid")>>
        ELSE /\ ~file.exists
             /\ file.rows = << >>
             /\ lpc # "crashed"
             /\ (lpc = "exited" /\ mpc = "stopped") => consumed = sent_before

C26_Witness ==
    /\ dump /\ lpc = "exited"
    /\ consumed = <<start_execution("unit", TheExperiment), fail_execution("unit", TheExperiment)>>
    /\ Len(file.rows) = 3
    /\ file.rows[2][8] = "" /\ file.rows[3][7] = "ValueError"

\* C27: no step rewrites or truncates an existing monitor log (its rows stay,
\* in place, as the first rows of the log), and whenever the monitor has been
\* started with dumping, however many times and whether or not the path held a
\* log before, the log exists, its first row is the header and no other row is.
C27_HeaderOnce ==
    [][/\ file.exists =>
            /\ file'.exists
            /\ Len(file'.rows) >= Len(file.rows)
            /\ SubSeq(file'.rows, 1, Len(file.rows)) = file.rows
       /\ (dump' /\ lpc' # "none") =>
            /\ file'.exists
            /\ file'.rows # << >>
            /\ {k \in DOMAIN file'.rows : file'.rows[k] = COLUMNS} = {1}]_vars

\* Started on a path that held a log, the listener failed on the first signal,
\* the monitor was started again and the second signal's row was appended.
C27_Witness ==
    /\ dump /\ mpc = "started" /\ lpc = "get"
    /\ Len(consumed) = 2
    /\ file.rows = OldLog.rows \o <<Row(consumed[2])>>

\* C28: every signal on the monitor's queue that start_execution,
\* finish_execution, fail_execution or stop_iteration put there has all of the
\* fields time, task_idx, id, pid, worker, worker_pid, name and it, and a status
\* among start, success, error and stop_iteration; it has an exception field
\* exactly when its status is error.
C28_SignalsComplete ==
    \A k \in DOMAIN mqueue :
        mqueue[k] # NoSignal =>
            /\ {"time", "task_idx", "id", "pid", "worker", "worker_pid", "name", "it",
                "status"} \subseteq DOMAIN mqueue[k]
            /\ mqueue[k].status \in {"start", "success", "error", "stop_iteration"}
            /\ ("exception" \in DOMAIN mqueue[k]) <=> (mqueue[k].status = "error")

\* A step of update_domain (one that returned nothing and repeats the previous
\* call changes no variable) and a step of next_tasks (likewise for one that
\* put nothing).
UpdateStep == ret'.op = "update_domain" /\ (ret' # ret \/ domain' # domain)
NextTasksStep == ret'.op = "next_tasks" /\ (ret' # ret \/ domain' # domain)

\* C29: update_domain passes the current finished_tasks and the Research
\* instance to the Domain's update; it leaves withdrawn_tasks, finished_tasks
\* and the tasks on the queue as they were, and the Domain is afterwards either
\* the one it was or a new one, not yet drawn from; every next_tasks draws all
\* the configurations it puts from the Domain current at the call, so that no
\* task holds configurations of two Domains.
C29_UpdateDomainFrame ==
    [][/\ UpdateStep =>
            /\ ret'.args = [finished_tasks |-> finished_tasks, research |-> "research"]
            /\ withdrawn_tasks' = withdrawn_tasks
            /\ finished_tasks' = finished_tasks
            /\ queue' = queue
            /\ enqueued' = enqueued
            /\ \/ domain' = domain
               \/ /\ domain'.pos = 0
                  /\ \A g \in 1..Len(Generations) : Generations[g].gen # domain'.gen
       /\ NextTasksStep =>
            /\ domain'.gen = domain.gen
            /\ \A i \in (Len(enqueued) + 1)..Len(enqueued') :
                  \A c \in 1..Len(enqueued'[i].configs) :
                      enqueued'[i].configs[c][1] = domain.gen
       /\ \A i \in 1..Len(enqueued') :
             \A c \in 1..Len(enqueued'[i].configs) :
                 enqueued'[i].configs[c][1] = enqueued'[i].configs[1][1]]_vars

\* update_domain returned a new Domain while a task of the old one, cut short,
\* was on the queue, and tasks of the new one were put after it.
C29_Witness ==
    /\ ret.op = "next_tasks"
    /\ finished_tasks = 1
    /\ Len(queue) = 3
    /\ queue[2].configs = <<<<0, 3>>>>
    /\ queue[3].configs = <<<<1, 1>>, <<1, 2>>>>

\* C30: next_tasks(n) returns the number k of batches it put, 0 <= k <= n, and
\* adds exactly k to withdrawn_tasks, leaving finished_tasks alone; on an
\* exhausted Domain it returns 0, puts nothing and leaves both counters.
C30_ReturnsBatchesPut ==
    [][NextTasksStep =>
          /\ ret'.value \in 0..ret'.n_tasks
          /\ Len(queue') = Len(queue) + ret'.value
          /\ SubSeq(queue', 1, Len(queue)) = queue
          /\ withdrawn_tasks' = withdrawn_tasks + ret'.value
          /\ finished_tasks' = finished_tasks
          /\ ~DomainHasNext(domain) =>
                /\ ret'.value = 0
                /\ queue' = queue
                /\ withdrawn_tasks' = withdrawn_tasks]_vars

\* A call asking for two batches got one, the Domain having run out, and the
\* next call on the exhausted Domain returned 0.
C30_Witness ==
    /\ ret = [op |-> "next_tasks", n_tasks |-> 2, value |-> 0]
    /\ ~DomainHasNext(domain)
    /\ withdrawn_tasks = 1
    /\ Len(queue) = 1
    /\ retired = << >>

\* The items put on the queue so far, tasks and sentinels, and the items a
\* consumer has taken and acknowledged with task_done.
RECURSIVE SumOver(_, _)
SumOver(f, S) == IF S = {} THEN 0
                 ELSE LET x == CHOOSE y \in S : TRUE IN f[x] + SumOver(f, S \ {x})
ItemsPut == Len(enqueued) + sentinels_put
ItemsTaken == Len(received) + SumOver(sentinels_got, Workers)
ItemsDone == ItemsTaken - Cardinality({w \in Workers : worker[w].st = "busy"})

\* C31: join() returns only in a state where every item put on the queue, task
\* or sentinel, has been taken and marked done (nothing is on the queue, no
\* consumer holds an item, as many task_done calls as puts); and whenever that
\* many acknowledgements have been made, join is free to return: the count it
\* waits on is the number of items put and not yet marked done.
C31_JoinWaitsForAll ==
    [][/\ waves'.joins # waves.joins =>
            /\ queue = << >>
            /\ \A w \in Workers : worker[w].st # "busy"
            /\ ItemsDone = ItemsPut
       /\ (ItemsDone' = ItemsPut') <=> (unfinished' = 0)]_vars

\* join returned after two tasks and a sentinel had all been marked done.
C31_Witness ==
    /\ waves.joins >= 1
    /\ Len(enqueued) >= 2 /\ sentinels_put >= 1
    /\ waves.acked = ItemsPut
    /\ waves.wave >= 3

\* A flat device list whose length neither divides workers x branches nor is a
\* multiple of it.
UnevenDevices ==
    /\ args.devices # DevicesNone
    /\ (args.workers * args.branches) % Len(args.devices) # 0
    /\ Len(args.devices) % (args.workers * args.branches) # 0

\* C32: a run called with such a list is past get_devices only as a run that
\* raised an argument error there: no devices are assigned, the research folder
\* is as it was, and no logger, queue, distributor, monitor or listener exists.
C32_UnevenListRejected ==
    (rpc \notin {"idle", "call"} /\ UnevenDevices) =>
        /\ rpc = "raised"
        /\ error = "ValueError"
        /\ self_devices = << >>
        /\ folder = args.folder0
        /\ created = {}
        /\ lpc = "none"

\* C33: experiment i of an Executor runs with a Configuration whose keys are
\* those of configs[i], branches_configs[i] and executor_config together, and
\* whose value for a key is that of configs[i] if it has the key, else that of
\* branches_configs[i] if it has the key, else that of executor_config.
C33_MergePrecedence ==
    executor.pc \notin {"none", "new"} =>
        \A i \in DOMAIN executor.experiments :
            LET c == executor.configs[i]
                b == executor.branches_configs[i]
                ec == executor.executor_config
                merged == executor.experiments[i].config
            IN  /\ DOMAIN merged = DOMAIN c \cup DOMAIN b \cup DOMAIN ec
                /\ \A k \in DOMAIN merged :
                       merged[k] = IF k \in DOMAIN c THEN c[k]
                                   ELSE IF k \in DOMAIN b THEN b[k] ELSE ec[k]

\* All three layers have n and x, the branches alone would give 2 and 3, and
\* the experiments run with the values of their own configs.
C33_Witness ==
    /\ executor.pc = "done"
    /\ DOMAIN executor.executor_config = {"n", "x"}
    /\ executor.branches_configs = <<[n |-> 2, x |-> 2], [n |-> 3, x |-> 3]>>
    /\ executor.experiments[1].config = [n |-> 0, x |-> 0]
    /\ executor.experiments[2].config = [n |-> 2, x |-> 2]

\* The iterations at which a signal of the given status was sent for the
\* unit 'sum' of the experiment with the given id, and the places of those
\* signals among all signals sent.
SentAt(id, status) ==
    {k \in DOMAIN sent_before :
        /\ sent_before[k].id = id /\ sent_before[k].name = "sum"
        /\ sent_before[k].status = status}
IterationsSent(id, status) == {sent_before[k].it : k \in SentAt(id, status)}

\* C34: for every experiment of an executor, with a generator of n values: a
\* stop_iteration signal is sent for it at most once, at iteration n, and no
\* success signal for it follows; its success signals are for iterations
\* below n; and once the run is over its success signals are those of every
\* iteration below n and n_iters, whatever its siblings' generators, and if
\* n_iters is greater than n (or None) the stop_iteration signal was sent.
C34_StopIterationPerExperiment ==
    executor.pc \notin {"none", "new"} =>
        \A i \in DOMAIN executor.experiments :
            LET e == executor.experiments[i]
                n == e.config.n
                beyond == executor.n_iters = Absent \/ executor.n_iters[1] > n
                last == IF beyond THEN n ELSE executor.n_iters[1]
            IN  /\ Cardinality(SentAt(e.id, "stop_iteration")) <= 1
                /\ IterationsSent(e.id, "stop_iteration") \subseteq {n}
                /\ \A k \in SentAt(e.id, "stop_iteration"),
                      j \in SentAt(e.id, "success") : j < k
                /\ IterationsSent(e.id, "success") \subseteq 0..(n - 1)
                /\ executor.pc = "done" =>
                      /\ IterationsSent(e.id, "success") = 0..(last - 1)
                      /\ beyond => IterationsSent(e.id, "stop_iteration") = {n}

\* The first experiment's generator ran out at iteration 0, the second one's at
\* iteration 2 after two values, and n_iters allowed more.
C34_Witness ==
    /\ executor.pc = "done"
    /\ executor.n_iters = Given(MaxIteration + 1)
    /\ executor.experiments[1].config.n = 0
    /\ executor.experiments[2].config.n = 2
    /\ IterationsSent("e1", "stop_iteration") = {0}
    /\ IterationsSent("e2", "success") = {0, 1}
    /\ IterationsSent("e2", "stop_iteration") = {2}

\* C35: once run has returned, the listener has taken every signal sent during
\* the run off the queue, has written a row for each of them if the run dumps
\* its results, and has left its loop.
C35_ReturnedMeansDrained ==
    rpc = "returned" =>
        /\ lpc = "exited"
        /\ mqueue = << >>
        /\ consumed = sent_before
        /\ dump => file.rows = <<COLUMNS>> \o Rows(sent_before)

\* C36: whenever run has ended, by returning or by an exception, with the
\* monitor started, stop has put the sentinel on the monitor's queue (so that
\* the listener, once it has taken what is before it, leaves its loop).
C36_SentinelOnEveryExit ==
    (rpc \in {"returned", "raised"} /\ lpc # "none") => mpc = "stopped"

\* C37: in every state of every interleaving of the puts of several callers,
\* the states between the two writes of a put included, every experiment id
\* that is a key of configs is a key of results: whatever a concurrent reader
\* sees, it never sees a config without its result.
C37_ConfigImpliesResult == DOMAIN configs \subseteq DOMAIN results

\* Between the two writes of a put a result is there without its config, while
\* another caller's put for the other id is also between its writes.
C37_Witness ==
    /\ \A p \in Callers : inflight[p] # NoPut
    /\ DOMAIN results = {"e1", "e2"}
    /\ DOMAIN configs = {}

\* C38: whatever the mode (config, alias, domain or none of them), a call of
\* filter_ids_by_configs with keyword filters that does not raise returns only
\* ids whose Config has every keyword key with the keyword's value (in alias
\* form when an alias was given).
C38_KwargsRestrictEveryMode ==
    (ret.op = "filter" /\ ~ret.raised /\ DOMAIN ret.kwargs # {}) =>
        \A k \in 1..Len(ret.ids) :
            LET c == IF ret.alias # Absent THEN configs[ret.ids[k]].alias
                     ELSE configs[ret.ids[k]].config
            IN  \A key \in DOMAIN ret.kwargs :
                    key \in DOMAIN c /\ c[key] = ret.kwargs[key]

=============================================================================
